---- MODULE Spec2Model ----
(***************************************************************************)
(* Markdown-to-HTML conversion pipeline of the static site generator       *)
(* (src/src/funcs.py): inline tokenizer, block splitter and classifier,    *)
(* block-to-tree converter and node serialization.                         *)
(*                                                                         *)
(* A Python str is a sequence of characters, each a TLA+ string.  Python's *)
(* None is the one-element sequence None, which no str equals.             *)
(* A raised exception is a result record whose err field names it.         *)
(***************************************************************************)
EXTENDS Integers, Sequences, FiniteSets, TLC

VARIABLES input, op, result

vars == <<input, op, result>>

None == <<"None">>

NL == "\n"

\* the backtick character (the lexer of TLA+ rejects it inside a string)
BT == "BT"

TAB == "\t"

NoError == "none"

(***************************************************************************)
(* Python str primitives used by funcs.py                                  *)
(***************************************************************************)
Min(S) == CHOOSE x \in S : \A y \in S : x <= y

Max(S) == CHOOSE x \in S : \A y \in S : x >= y

\* s[a:b] with 1-based inclusive bounds, empty when b < a
Slice(s, a, b) == IF b < a THEN <<>> ELSE SubSeq(s, a, b)

\* s.startswith(p)
StartsWith(s, p) == Len(s) >= Len(p) /\ Slice(s, 1, Len(p)) = p

\* s.endswith(p)
EndsWith(s, p) == Len(s) >= Len(p) /\ Slice(s, Len(s) - Len(p) + 1, Len(s)) = p

\* s.find(sub, from): lowest 1-based index >= from where sub occurs, 0 when absent
Find(s, sub, from) ==
    LET idx == {i \in from..(Len(s) - Len(sub) + 1) : Slice(s, i, i + Len(sub) - 1) = sub}
    IN IF idx = {} THEN 0 ELSE Min(idx)

\* s.rfind(sub): highest 1-based index where sub occurs, 0 when absent
RFind(s, sub) ==
    LET idx == {i \in 1..(Len(s) - Len(sub) + 1) : Slice(s, i, i + Len(sub) - 1) = sub}
    IN IF idx = {} THEN 0 ELSE Max(idx)

RECURSIVE Split(_, _)
\* s.split(sep) for a non-empty sep: cut at each occurrence, left to right
Split(s, sep) ==
    LET i == Find(s, sep, 1)
    IN IF i = 0 THEN <<s>>
       ELSE <<Slice(s, 1, i - 1)>> \o Split(Slice(s, i + Len(sep), Len(s)), sep)

\* s.split(sep, 1): cut at the first occurrence only
Split1(s, sep) ==
    LET i == Find(s, sep, 1)
    IN IF i = 0 THEN <<s>>
       ELSE <<Slice(s, 1, i - 1), Slice(s, i + Len(sep), Len(s))>>

RECURSIVE Join(_, _)
\* sep.join(parts)
Join(sep, parts) ==
    IF parts = <<>> THEN <<>>
    ELSE IF Len(parts) = 1 THEN parts[1]
    ELSE parts[1] \o sep \o Join(sep, Tail(parts))

\* the characters str.strip() removes, as far as the modelled inputs have them
Whitespace == {" ", NL, TAB}

\* variant that removes at most one whitespace character at each end
Strip_once(s) ==
    LET a == IF s # <<>> /\ s[1] \in Whitespace THEN 2 ELSE 1
        b == IF Len(s) >= a /\ s[Len(s)] \in Whitespace THEN Len(s) - 1 ELSE Len(s)
    IN Slice(s, a, b)

\* s.strip()
Strip(s) ==
    LET keep == {i \in 1..Len(s) : s[i] \notin Whitespace}
    IN IF keep = {} THEN <<>> ELSE Slice(s, Min(keep), Max(keep))

Digit(d) == CASE d = 0 -> "0" [] d = 1 -> "1" [] d = 2 -> "2" [] d = 3 -> "3"
              [] d = 4 -> "4" [] d = 5 -> "5" [] d = 6 -> "6" [] d = 7 -> "7"
              [] d = 8 -> "8" [] d = 9 -> "9"

RECURSIVE Str(_)
\* str(n) / f"{n}" for a natural number n
Str(n) == IF n < 10 THEN <<Digit(n)>> ELSE Str(n \div 10) \o <<Digit(n % 10)>>

(***************************************************************************)
(* TextNode (textnode.py) and the TextType members funcs.py uses           *)
(***************************************************************************)
TextType == {"TEXT", "BOLD", "ITALIC", "CODE", "LINK", "IMAGE"}

TextNode(text, node_type, URL) == [text |-> text, node_type |-> node_type, URL |-> URL]

(***************************************************************************)
(* split_nodes_delimiter                                                   *)
(***************************************************************************)
RECURSIVE PartsToNodes_swapped(_, _, _)
\* variant with the parity test of the loop index inverted
PartsToNodes_swapped(parts, i, text_type) ==
    IF parts = <<>> THEN <<>>
    ELSE LET part == Head(parts)
             here == IF part # <<>>
                     THEN IF i % 2 = 1 THEN <<TextNode(part, "TEXT", None)>>
                          ELSE <<TextNode(part, text_type, None)>>
                     ELSE <<>>
         IN here \o PartsToNodes_swapped(Tail(parts), i + 1, text_type)

RECURSIVE PartsToNodes_keepempty(_, _, _)
\* variant without the "if part" test: empty parts become nodes too
PartsToNodes_keepempty(parts, i, text_type) ==
    IF parts = <<>> THEN <<>>
    ELSE LET part == Head(parts)
             here == IF i % 2 = 0 THEN <<TextNode(part, "TEXT", None)>>
                     ELSE <<TextNode(part, text_type, None)>>
         IN here \o PartsToNodes_keepempty(Tail(parts), i + 1, text_type)

RECURSIVE PartsToNodes(_, _, _)
\* the inner loop over enumerate(parts), i is the 0-based index of parts[1]
PartsToNodes(parts, i, text_type) ==
    IF parts = <<>> THEN <<>>
    ELSE LET part == Head(parts)
             here == IF part # <<>>
                     THEN IF i % 2 = 0 THEN <<TextNode(part, "TEXT", None)>>
                          ELSE <<TextNode(part, text_type, None)>>
                     ELSE <<>>
         IN here \o PartsToNodes(Tail(parts), i + 1, text_type)

\* one result after another: the first exception raised wins, else the node
\* lists are concatenated
Sequence(first, rest) ==
    IF first.err # NoError THEN first
    ELSE IF rest.err # NoError THEN rest
    ELSE [err |-> NoError, nodes |-> first.nodes \o rest.nodes]

\* variant that accepts an unmatched delimiter instead of raising
SplitNode_noraise(node, delimiter, text_type) ==
    IF node.node_type = "TEXT"
    THEN [err |-> NoError, nodes |-> PartsToNodes(Split(node.text, delimiter), 0, text_type)]
    ELSE [err |-> NoError, nodes |-> <<node>>]

\* the body of the loop "for node in old_nodes" for one node
SplitNode(node, delimiter, text_type) ==
    IF node.node_type = "TEXT"
    THEN LET parts == Split(node.text, delimiter)
         IN IF Len(parts) % 2 = 0
            THEN [err |-> "Invalid Markdown syntax", nodes |-> <<>>]
            ELSE [err |-> NoError, nodes |-> PartsToNodes(parts, 0, text_type)]
    ELSE [err |-> NoError, nodes |-> <<node>>]

RECURSIVE split_nodes_delimiter(_, _, _)
split_nodes_delimiter(old_nodes, delimiter, text_type) ==
    IF old_nodes = <<>> THEN [err |-> NoError, nodes |-> <<>>]
    ELSE Sequence(SplitNode(Head(old_nodes), delimiter, text_type),
                  split_nodes_delimiter(Tail(old_nodes), delimiter, text_type))

(***************************************************************************)
(* extract_markdown_images / extract_markdown_links: re.findall            *)
(***************************************************************************)
\* end of the greedy run [^excl]* that starts at j: first index >= j holding a
\* character of excl, Len(text) + 1 when there is none
RunEnd(text, j, excl) ==
    LET stop == {k \in j..Len(text) : text[k] \in excl}
    IN IF stop = {} THEN Len(text) + 1 ELSE Min(stop)

\* match of the bracket pattern anchored at index b: '[', a run without
\* brackets, ']', '(', a run without parentheses, ')'
BracketMatchAt(text, b) ==
    LET k == RunEnd(text, b + 1, {"[", "]"})
        m == RunEnd(text, k + 2, {"(", ")"})
        ok == /\ b >= 1 /\ b <= Len(text) /\ text[b] = "["
              /\ k <= Len(text) /\ text[k] = "]"
              /\ k + 1 <= Len(text) /\ text[k + 1] = "("
              /\ m <= Len(text) /\ text[m] = ")"
    IN IF ok THEN [ok |-> TRUE, g1 |-> Slice(text, b + 1, k - 1),
                   g2 |-> Slice(text, k + 2, m - 1), end |-> m]
       ELSE [ok |-> FALSE, g1 |-> <<>>, g2 |-> <<>>, end |-> 0]

\* match of the image pattern anchored at index i: '!' then the bracket pattern
ImageMatchAt(text, i) ==
    IF i <= Len(text) /\ text[i] = "!" THEN BracketMatchAt(text, i + 1)
    ELSE [ok |-> FALSE, g1 |-> <<>>, g2 |-> <<>>, end |-> 0]

\* match of the link pattern anchored at index i: the bracket pattern, not
\* preceded by '!' (negative lookbehind on the whole text)
LinkMatchAt(text, i) ==
    IF i = 1 \/ text[i - 1] # "!" THEN BracketMatchAt(text, i)
    ELSE [ok |-> FALSE, g1 |-> <<>>, g2 |-> <<>>, end |-> 0]

RECURSIVE FindAllImages(_, _)
FindAllImages(text, i) ==
    IF i > Len(text) THEN <<>>
    ELSE LET mt == ImageMatchAt(text, i)
         IN IF mt.ok THEN <<(<<mt.g1, mt.g2>>)>> \o FindAllImages(text, mt.end + 1)
            ELSE FindAllImages(text, i + 1)

RECURSIVE FindAllLinks(_, _)
FindAllLinks(text, i) ==
    IF i > Len(text) THEN <<>>
    ELSE LET mt == LinkMatchAt(text, i)
         IN IF mt.ok THEN <<(<<mt.g1, mt.g2>>)>> \o FindAllLinks(text, mt.end + 1)
            ELSE FindAllLinks(text, i + 1)

extract_markdown_images(text) == FindAllImages(text, 1)

extract_markdown_links(text) == FindAllLinks(text, 1)

(***************************************************************************)
(* split_nodes_image / split_nodes_link                                    *)
(***************************************************************************)
RECURSIVE SplitByMatches_nourl(_, _, _, _)
\* variant that builds the image or link node without its url
SplitByMatches_nourl(remaining_text, matches, bang, node_type) ==
    IF matches = <<>>
    THEN IF remaining_text # <<>> THEN <<TextNode(remaining_text, "TEXT", None)>> ELSE <<>>
    ELSE LET alt_text == Head(matches)[1]
             url == Head(matches)[2]
             markdown == bang \o <<"[">> \o alt_text \o <<"]", "(">> \o url \o <<")">>
             parts == Split1(remaining_text, markdown)
             before == IF parts[1] # <<>> THEN <<TextNode(parts[1], "TEXT", None)>> ELSE <<>>
             after == IF Len(parts) > 1 THEN parts[2] ELSE <<>>
         IN before \o <<TextNode(alt_text, node_type, None)>>
                   \o SplitByMatches_nourl(after, Tail(matches), bang, node_type)

RECURSIVE SplitByMatches_notail(_, _, _, _)
\* variant without the final "if remaining_text" append
SplitByMatches_notail(remaining_text, matches, bang, node_type) ==
    IF matches = <<>> THEN <<>>
    ELSE LET alt_text == Head(matches)[1]
             url == Head(matches)[2]
             markdown == bang \o <<"[">> \o alt_text \o <<"]", "(">> \o url \o <<")">>
             parts == Split1(remaining_text, markdown)
             before == IF parts[1] # <<>> THEN <<TextNode(parts[1], "TEXT", None)>> ELSE <<>>
             after == IF Len(parts) > 1 THEN parts[2] ELSE <<>>
         IN before \o <<TextNode(alt_text, node_type, url)>>
                   \o SplitByMatches_notail(after, Tail(matches), bang, node_type)

RECURSIVE SplitByMatches(_, _, _, _)
\* the loop "for alt_text, url in images" over one node's text; bang is "!"
\* for images and empty for links, node_type the type of the emitted node
SplitByMatches(remaining_text, matches, bang, node_type) ==
    IF matches = <<>>
    THEN IF remaining_text # <<>> THEN <<TextNode(remaining_text, "TEXT", None)>> ELSE <<>>
    ELSE LET alt_text == Head(matches)[1]
             url == Head(matches)[2]
             markdown == bang \o <<"[">> \o alt_text \o <<"]", "(">> \o url \o <<")">>
             parts == Split1(remaining_text, markdown)
             before == IF parts[1] # <<>> THEN <<TextNode(parts[1], "TEXT", None)>> ELSE <<>>
             after == IF Len(parts) > 1 THEN parts[2] ELSE <<>>
         IN before \o <<TextNode(alt_text, node_type, url)>>
                   \o SplitByMatches(after, Tail(matches), bang, node_type)

RECURSIVE split_nodes_image_alltypes(_)
\* variant without the test of the node type
split_nodes_image_alltypes(old_nodes) ==
    IF old_nodes = <<>> THEN <<>>
    ELSE LET node == Head(old_nodes)
             images == extract_markdown_images(node.text)
             here == IF images = <<>> THEN <<node>>
                     ELSE SplitByMatches(node.text, images, <<"!">>, "IMAGE")
         IN here \o split_nodes_image_alltypes(Tail(old_nodes))

RECURSIVE split_nodes_image(_)
split_nodes_image(old_nodes) ==
    IF old_nodes = <<>> THEN <<>>
    ELSE LET node == Head(old_nodes)
             images == extract_markdown_images(node.text)
             here == IF node.node_type # "TEXT" THEN <<node>>
                     ELSE IF images = <<>> THEN <<node>>
                     ELSE SplitByMatches(node.text, images, <<"!">>, "IMAGE")
         IN here \o split_nodes_image(Tail(old_nodes))

RECURSIVE split_nodes_link(_)
split_nodes_link(old_nodes) ==
    IF old_nodes = <<>> THEN <<>>
    ELSE LET node == Head(old_nodes)
             links == extract_markdown_links(node.text)
             here == IF node.node_type # "TEXT" THEN <<node>>
                     ELSE IF links = <<>> THEN <<node>>
                     ELSE SplitByMatches(node.text, links, <<>>, "LINK")
         IN here \o split_nodes_link(Tail(old_nodes))

(***************************************************************************)
(* text_to_textnodes                                                       *)
(***************************************************************************)
Seed(text) == [err |-> NoError, nodes |-> <<TextNode(text, "TEXT", None)>>]

\* one delimiter pass on the outcome r of the passes before it: an exception
\* raised earlier has ended the call
DelimiterPass(r, delimiter, text_type) ==
    IF r.err # NoError THEN r ELSE split_nodes_delimiter(r.nodes, delimiter, text_type)

AfterBold(text) == DelimiterPass(Seed(text), <<"*", "*">>, "BOLD")

AfterStar(text) == DelimiterPass(AfterBold(text), <<"*">>, "ITALIC")

AfterUnderscore(text) == DelimiterPass(AfterStar(text), <<"_">>, "ITALIC")

\* variant without the backtick pass
AfterBacktick_skip(text) == AfterUnderscore(text)

AfterBacktick(text) == DelimiterPass(AfterUnderscore(text), <<BT>>, "CODE")

\* variant without the image-extraction pass
ImageLinkPasses_noimage(r) ==
    IF r.err # NoError THEN r
    ELSE [err |-> NoError, nodes |-> split_nodes_link(r.nodes)]

\* split_nodes_image then split_nodes_link on the outcome of the delimiter passes
ImageLinkPasses(r) ==
    IF r.err # NoError THEN r
    ELSE [err |-> NoError, nodes |-> split_nodes_link(split_nodes_image(r.nodes))]

text_to_textnodes(text) == ImageLinkPasses(AfterBacktick(text))

(***************************************************************************)
(* HTML node model (htmlnode.py): LeafNode, ParentNode, to_html            *)
(***************************************************************************)
LeafNode(tag, value, props) ==
    [kind |-> "LeafNode", tag |-> tag, value |-> value, children |-> <<>>, props |-> props]

ParentNode(tag, children, props) ==
    [kind |-> "ParentNode", tag |-> tag, value |-> None, children |-> children, props |-> props]

\* children=None of a ParentNode: a marker no list of nodes equals
NoneChildren == <<[kind |-> "None"]>>

RECURSIVE props_to_html_rev(_)
\* variant that renders the attributes last to first
props_to_html_rev(props) ==
    IF props = <<>> THEN <<>>
    ELSE props_to_html_rev(Tail(props))
         \o <<" ">> \o Head(props)[1] \o <<"=", "\"">> \o Head(props)[2] \o <<"\"">>

RECURSIVE props_to_html(_)
\* props is the dict in insertion order, a sequence of <<key, value>> pairs
props_to_html(props) ==
    IF props = <<>> THEN <<>>
    ELSE <<" ">> \o Head(props)[1] \o <<"=", "\"">> \o Head(props)[2] \o <<"\"">>
         \o props_to_html(Tail(props))

OpenTag(node) == <<"<">> \o node.tag \o props_to_html(node.props) \o <<">">>

CloseTag(node) == <<"<", "/">> \o node.tag \o <<">">>

\* one serialization after another: the first exception raised wins
SequenceHtml(first, rest) ==
    IF first.err # NoError THEN first
    ELSE IF rest.err # NoError THEN rest
    ELSE [err |-> NoError, html |-> first.html \o rest.html]

\* the serialized children inside the node's tags
Enclose(node, inner) ==
    IF inner.err # NoError THEN inner
    ELSE [err |-> NoError, html |-> OpenTag(node) \o inner.html \o CloseTag(node)]

RECURSIVE to_html(_)
RECURSIVE ChildrenToHtml(_)
\* the concatenation of the children's to_html
ChildrenToHtml(children) ==
    IF children = <<>> THEN [err |-> NoError, html |-> <<>>]
    ELSE SequenceHtml(to_html(Head(children)), ChildrenToHtml(Tail(children)))

\* variant that renders a ParentNode without children as an empty element
to_html_emptyok(node) ==
    IF node.kind = "LeafNode"
    THEN IF node.value = None THEN [err |-> "ValueError", html |-> <<>>]
         ELSE IF node.tag = None THEN [err |-> NoError, html |-> node.value]
         ELSE [err |-> NoError, html |-> OpenTag(node) \o node.value \o CloseTag(node)]
    ELSE IF node.tag = None THEN [err |-> "ValueError", html |-> <<>>]
         ELSE IF node.children = NoneChildren \/ node.children = <<>>
              THEN [err |-> NoError, html |-> OpenTag(node) \o CloseTag(node)]
         ELSE Enclose(node, ChildrenToHtml(node.children))

to_html(node) ==
    IF node.kind = "LeafNode"
    THEN IF node.value = None THEN [err |-> "ValueError", html |-> <<>>]
         ELSE IF node.tag = None THEN [err |-> NoError, html |-> node.value]
         ELSE [err |-> NoError, html |-> OpenTag(node) \o node.value \o CloseTag(node)]
    ELSE IF node.tag = None THEN [err |-> "ValueError", html |-> <<>>]
         ELSE IF node.children = NoneChildren \/ node.children = <<>>
              THEN [err |-> "ValueError", html |-> <<>>]
         ELSE Enclose(node, ChildrenToHtml(node.children))

(***************************************************************************)
(* text_node_to_html_node                                                  *)
(***************************************************************************)
\* variant that builds the img attributes in the order alt, src
text_node_to_html_node_altfirst(text_node) ==
    CASE text_node.node_type = "TEXT" ->
            [err |-> NoError, node |-> LeafNode(None, text_node.text, <<>>)]
      [] text_node.node_type = "BOLD" ->
            [err |-> NoError, node |-> LeafNode(<<"b">>, text_node.text, <<>>)]
      [] text_node.node_type = "ITALIC" ->
            [err |-> NoError, node |-> LeafNode(<<"i">>, text_node.text, <<>>)]
      [] text_node.node_type = "CODE" ->
            [err |-> NoError, node |-> LeafNode(<<"c", "o", "d", "e">>, text_node.text, <<>>)]
      [] text_node.node_type = "LINK" ->
            [err |-> NoError,
             node |-> LeafNode(<<"a">>, text_node.text,
                               <<(<<(<<"h", "r", "e", "f">>), text_node.URL>>)>>)]
      [] text_node.node_type = "IMAGE" ->
            [err |-> NoError,
             node |-> LeafNode(<<"i", "m", "g">>, <<>>,
                               <<(<<(<<"a", "l", "t">>), text_node.text>>),
                                 (<<(<<"s", "r", "c">>), text_node.URL>>)>>)]
      [] OTHER -> [err |-> "ValueError", node |-> None]

text_node_to_html_node(text_node) ==
    CASE text_node.node_type = "TEXT" ->
            [err |-> NoError, node |-> LeafNode(None, text_node.text, <<>>)]
      [] text_node.node_type = "BOLD" ->
            [err |-> NoError, node |-> LeafNode(<<"b">>, text_node.text, <<>>)]
      [] text_node.node_type = "ITALIC" ->
            [err |-> NoError, node |-> LeafNode(<<"i">>, text_node.text, <<>>)]
      [] text_node.node_type = "CODE" ->
            [err |-> NoError, node |-> LeafNode(<<"c", "o", "d", "e">>, text_node.text, <<>>)]
      [] text_node.node_type = "LINK" ->
            [err |-> NoError,
             node |-> LeafNode(<<"a">>, text_node.text,
                               <<(<<(<<"h", "r", "e", "f">>), text_node.URL>>)>>)]
      [] text_node.node_type = "IMAGE" ->
            [err |-> NoError,
             node |-> LeafNode(<<"i", "m", "g">>, <<>>,
                               <<(<<(<<"s", "r", "c">>), text_node.URL>>),
                                 (<<(<<"a", "l", "t">>), text_node.text>>)>>)]
      [] OTHER -> [err |-> "ValueError", node |-> None]

(***************************************************************************)
(* markdown_to_blocks                                                      *)
(***************************************************************************)
RECURSIVE CleanBlocks_keepempty(_)
\* variant without the "if stripped" filter
CleanBlocks_keepempty(blocks) ==
    IF blocks = <<>> THEN <<>>
    ELSE <<Strip(Head(blocks))>> \o CleanBlocks_keepempty(Tail(blocks))

RECURSIVE CleanBlocks(_)
\* the loop over blocks: strip each, keep the non-empty ones
CleanBlocks(blocks) ==
    IF blocks = <<>> THEN <<>>
    ELSE LET stripped == Strip(Head(blocks))
         IN (IF stripped # <<>> THEN <<stripped>> ELSE <<>>) \o CleanBlocks(Tail(blocks))

markdown_to_blocks(markdown) == CleanBlocks(Split(markdown, <<NL, NL>>))

(***************************************************************************)
(* block_to_block_type                                                     *)
(***************************************************************************)
BlockType == {"PARAGRAPH", "HEADING", "CODE", "QUOTE", "UNORDERED_LIST", "ORDERED_LIST"}

Fence == <<BT, BT, BT>>

\* the loop counting the leading '#' characters
HashCount(block) == RunEnd(block, 1, {block[i] : i \in 1..Len(block)} \ {"#"}) - 1

\* variant without the upper limit of six
IsHeading_nolimit(block) ==
    /\ StartsWith(block, <<"#">>)
    /\ LET count == HashCount(block)
       IN 1 <= count /\ Len(block) > count /\ block[count + 1] = " "

IsHeading(block) ==
    /\ StartsWith(block, <<"#">>)
    /\ LET count == HashCount(block)
       IN 1 <= count /\ count <= 6 /\ Len(block) > count /\ block[count + 1] = " "

IsCode(block) == StartsWith(block, Fence) /\ EndsWith(block, Fence)

\* variant that asks for one line starting with '>' only
IsQuote_some(lines) == \E i \in 1..Len(lines) : StartsWith(lines[i], <<">">>)

IsQuote(lines) == \A i \in 1..Len(lines) : StartsWith(lines[i], <<">">>)

IsUnorderedList(lines) == \A i \in 1..Len(lines) : StartsWith(lines[i], <<"-", " ">>)

\* variant that numbers the lines from 0
IsOrderedList_zero(lines) ==
    /\ \A i \in 1..Len(lines) : StartsWith(lines[i], Str(i - 1) \o <<".", " ">>)
    /\ Len(lines) > 0

\* line i (1-based here) must start with f"{i}. "
IsOrderedList(lines) ==
    /\ \A i \in 1..Len(lines) : StartsWith(lines[i], Str(i) \o <<".", " ">>)
    /\ Len(lines) > 0

\* variant without the final "return BlockType.PARAGRAPH"
block_to_block_type_nodefault(block) ==
    LET lines == Split(block, <<NL>>)
    IN IF IsHeading(block) THEN "HEADING"
       ELSE IF IsCode(block) THEN "CODE"
       ELSE IF IsQuote(lines) THEN "QUOTE"
       ELSE IF IsUnorderedList(lines) THEN "UNORDERED_LIST"
       ELSE IF IsOrderedList(lines) THEN "ORDERED_LIST"
       ELSE "None"

block_to_block_type(block) ==
    LET lines == Split(block, <<NL>>)
    IN IF IsHeading(block) THEN "HEADING"
       ELSE IF IsCode(block) THEN "CODE"
       ELSE IF IsQuote(lines) THEN "QUOTE"
       ELSE IF IsUnorderedList(lines) THEN "UNORDERED_LIST"
       ELSE IF IsOrderedList(lines) THEN "ORDERED_LIST"
       ELSE "PARAGRAPH"

(***************************************************************************)
(* Block-to-tree converters                                                *)
(***************************************************************************)
\* a one-node result as a node list
One(r) ==
    IF r.err # NoError THEN [err |-> r.err, nodes |-> <<>>]
    ELSE [err |-> NoError, nodes |-> <<r.node>>]

RECURSIVE NodesToHtmlNodes(_)
\* the loop of text_to_children over the text nodes
NodesToHtmlNodes(text_nodes) ==
    IF text_nodes = <<>> THEN [err |-> NoError, nodes |-> <<>>]
    ELSE Sequence(One(text_node_to_html_node(Head(text_nodes))),
                  NodesToHtmlNodes(Tail(text_nodes)))

\* the conversion of the text nodes, unless text_to_textnodes raised
ToChildren(text_nodes) ==
    IF text_nodes.err # NoError THEN text_nodes ELSE NodesToHtmlNodes(text_nodes.nodes)

text_to_children(text) == ToChildren(text_to_textnodes(text))

\* ParentNode(tag, children) around the children of a text, errors propagating
Wrap(tag, children) ==
    IF children.err # NoError THEN [err |-> children.err, node |-> None]
    ELSE [err |-> NoError, node |-> ParentNode(tag, children.nodes, <<>>)]

\* variant that tokenizes the block as it is, without joining its lines
paragraph_to_html_node_nojoin(block) ==
    Wrap(<<"p">>, text_to_children(block))

paragraph_to_html_node(block) ==
    LET lines == Split(block, <<NL>>)
        text == Join(<<" ">>, lines)
    IN Wrap(<<"p">>, text_to_children(text))

\* variant that takes the heading text from the first line only
heading_to_html_node_firstline(block) ==
    LET level == HashCount(block)
        line == Split(block, <<NL>>)[1]
        text == Slice(line, level + 2, Len(line))
    IN Wrap(<<"h">> \o Str(level), text_to_children(text))

heading_to_html_node(block) ==
    LET level == HashCount(block)
        text == Slice(block, level + 2, Len(block))
    IN Wrap(<<"h">> \o Str(level), text_to_children(text))

code_to_html_node(block) ==
    IF ~StartsWith(block, Fence) THEN [err |-> "ValueError", node |-> None]
    ELSE LET first_newline == Find(block, <<NL>>, 1)
             last_backticks == RFind(block, Fence)
         IN IF first_newline = 0 THEN [err |-> "ValueError", node |-> None]
            ELSE LET code_text == Slice(block, first_newline + 1, last_backticks - 1)
                     code_node == LeafNode(<<"c", "o", "d", "e">>, code_text, <<>>)
                 IN [err |-> NoError, node |-> ParentNode(<<"p", "r", "e">>, <<code_node>>, <<>>)]

RECURSIVE CleanQuoteLines(_)
CleanQuoteLines(lines) ==
    IF lines = <<>> THEN <<>>
    ELSE LET line == Head(lines)
             here == IF StartsWith(line, <<">", " ">>) THEN <<Slice(line, 3, Len(line))>>
                     ELSE IF StartsWith(line, <<">">>) THEN <<Slice(line, 2, Len(line))>>
                     ELSE <<>>
         IN here \o CleanQuoteLines(Tail(lines))

quote_to_html_node(block) ==
    LET lines == Split(block, <<NL>>)
        text == Join(<<NL>>, CleanQuoteLines(lines))
    IN Wrap(<<"b", "l", "o", "c", "k", "q", "u", "o", "t", "e">>, text_to_children(text))

RECURSIVE UnorderedItems(_)
\* the loop over lines of unordered_list_to_html_node
UnorderedItems(lines) ==
    IF lines = <<>> THEN [err |-> NoError, nodes |-> <<>>]
    ELSE Sequence(One(Wrap(<<"l", "i">>,
                           text_to_children(Slice(Head(lines), 3, Len(Head(lines)))))),
                  UnorderedItems(Tail(lines)))

unordered_list_to_html_node(block) ==
    Wrap(<<"u", "l">>, UnorderedItems(Split(block, <<NL>>)))

\* the li node of one line of an ordered list; dot is line.index(". ") + 1
OrderedItem(line, dot) ==
    IF dot = 0 THEN [err |-> "ValueError", node |-> None]
    ELSE Wrap(<<"l", "i">>, text_to_children(Slice(line, dot + 2, Len(line))))

RECURSIVE OrderedItems_last(_)
\* variant that locates the last ". " of the line, not the first
OrderedItems_last(lines) ==
    IF lines = <<>> THEN [err |-> NoError, nodes |-> <<>>]
    ELSE Sequence(One(OrderedItem(Head(lines), RFind(Head(lines), <<".", " ">>))),
                  OrderedItems_last(Tail(lines)))

RECURSIVE OrderedItems(_)
\* the loop over lines of ordered_list_to_html_node
OrderedItems(lines) ==
    IF lines = <<>> THEN [err |-> NoError, nodes |-> <<>>]
    ELSE Sequence(One(OrderedItem(Head(lines), Find(Head(lines), <<".", " ">>, 1))),
                  OrderedItems(Tail(lines)))

ordered_list_to_html_node(block) ==
    Wrap(<<"o", "l">>, OrderedItems(Split(block, <<NL>>)))

\* the dispatch of block_to_html_node on the block type
Dispatch(block_type, block) ==
    CASE block_type = "PARAGRAPH" -> paragraph_to_html_node(block)
      [] block_type = "HEADING" -> heading_to_html_node(block)
      [] block_type = "CODE" -> code_to_html_node(block)
      [] block_type = "QUOTE" -> quote_to_html_node(block)
      [] block_type = "UNORDERED_LIST" -> unordered_list_to_html_node(block)
      [] block_type = "ORDERED_LIST" -> ordered_list_to_html_node(block)
      [] OTHER -> [err |-> "ValueError", node |-> None]

block_to_html_node(block) == Dispatch(block_to_block_type(block), block)

(***************************************************************************)
(* markdown_to_html_node                                                   *)
(***************************************************************************)
RECURSIVE BlocksToHtmlNodes(_)
\* the loop over blocks, the first failing block raising
BlocksToHtmlNodes(blocks) ==
    IF blocks = <<>> THEN [err |-> NoError, nodes |-> <<>>]
    ELSE Sequence(One(block_to_html_node(Head(blocks))), BlocksToHtmlNodes(Tail(blocks)))

RECURSIVE Reverse(_)
Reverse(q) == IF q = <<>> THEN <<>> ELSE Reverse(Tail(q)) \o <<Head(q)>>

\* variant that raises ValueError when there is no child
DivOf_strict(children) ==
    IF children.err # NoError THEN [err |-> children.err, node |-> None]
    ELSE IF children.nodes = <<>> THEN [err |-> "ValueError", node |-> None]
    ELSE [err |-> NoError, node |-> ParentNode(<<"d", "i", "v">>, children.nodes, <<>>)]

\* variant that inserts each converted block at the front of children
DivOf_rev(children) ==
    IF children.err # NoError THEN [err |-> children.err, node |-> None]
    ELSE [err |-> NoError, node |-> ParentNode(<<"d", "i", "v">>, Reverse(children.nodes), <<>>)]

\* ParentNode("div", children)
DivOf(children) == Wrap(<<"d", "i", "v">>, children)

markdown_to_html_node(markdown) == DivOf(BlocksToHtmlNodes(markdown_to_blocks(markdown)))

(***************************************************************************)
(* extract_title                                                           *)
(***************************************************************************)
NoTitle == [err |-> "No h1 header found in markdown", title |-> None]

RECURSIVE FirstTitle_nostrip(_)
\* variant that tests the line as it is, without line.strip()
FirstTitle_nostrip(lines) ==
    IF lines = <<>> THEN NoTitle
    ELSE LET stripped == Head(lines)
         IN IF StartsWith(stripped, <<"#", " ">>) /\ ~StartsWith(stripped, <<"#", "#", " ">>)
            THEN [err |-> NoError, title |-> Strip(Slice(stripped, 3, Len(stripped)))]
            ELSE FirstTitle_nostrip(Tail(lines))

RECURSIVE FirstTitle(_)
\* the loop "for line in lines": the first qualifying line returns
FirstTitle(lines) ==
    IF lines = <<>> THEN NoTitle
    ELSE LET stripped == Strip(Head(lines))
         IN IF StartsWith(stripped, <<"#", " ">>) /\ ~StartsWith(stripped, <<"#", "#", " ">>)
            THEN [err |-> NoError, title |-> Strip(Slice(stripped, 3, Len(stripped)))]
            ELSE FirstTitle(Tail(lines))

extract_title(markdown) == FirstTitle(Split(markdown, <<NL>>))

(***************************************************************************)
(* generate_page                                                           *)
(***************************************************************************)
\* s.replace(old, new) for a non-empty old
Replace(s, old, new) == Join(new, Split(s, old))

\* the four replacements of generate_page on the template
FillTemplate(template_content, title, html_content, basepath) ==
    LET with_title == Replace(template_content, <<"{", "{", " ", "T", "i", "t", "l", "e", " ", "}", "}">>, title)
        with_content == Replace(with_title, <<"{", "{", " ", "C", "o", "n", "t", "e", "n", "t", " ", "}", "}">>, html_content)
        with_href == Replace(with_content, <<"h", "r", "e", "f", "=", "\"", "/">>, <<"h", "r", "e", "f", "=", "\"">> \o basepath)
    IN Replace(with_href, <<"s", "r", "c", "=", "\"", "/">>, <<"s", "r", "c", "=", "\"">> \o basepath)

\* extract_title and the replacements, after markdown_to_html_node and to_html
Titled(template_content, title, html_content, basepath) ==
    IF title.err # NoError THEN [err |-> title.err, html |-> <<>>]
    ELSE [err |-> NoError,
          html |-> FillTemplate(template_content, title.title, html_content, basepath)]

\* the steps of generate_page after html_node.to_html()
Serialized(template_content, markdown_content, html_content, basepath) ==
    IF html_content.err # NoError THEN html_content
    ELSE Titled(template_content, extract_title(markdown_content), html_content.html, basepath)

\* the steps of generate_page after markdown_to_html_node
Converted(template_content, markdown_content, html_node, basepath) ==
    IF html_node.err # NoError THEN [err |-> html_node.err, html |-> <<>>]
    ELSE Serialized(template_content, markdown_content, to_html(html_node.node), basepath)

\* full_html of generate_page, or the first exception raised on the way to it
full_html(template_content, markdown_content, basepath) ==
    Converted(template_content, markdown_content,
              markdown_to_html_node(markdown_content), basepath)

\* os.path.dirname(path), a path being the sequence of its names
Dirname(path) == Slice(path, 1, Len(path) - 1)

\* the directories os.makedirs(path) leaves in existence
Makedirs(dirs, path) == dirs \cup { Slice(path, 1, n) : n \in 1..Len(path) }

\* variant that creates the destination directory before the conversion
generate_page_mkdirfirst(fs, page, dest_path) ==
    LET dirs == IF Dirname(dest_path) # <<>> /\ Dirname(dest_path) \notin fs.dirs
                THEN Makedirs(fs.dirs, Dirname(dest_path)) ELSE fs.dirs
    IN IF page.err # NoError THEN [err |-> page.err, dirs |-> dirs, files |-> fs.files]
       ELSE [err |-> NoError, dirs |-> dirs,
             files |-> {f \in fs.files : f[1] # dest_path} \cup {<<dest_path, page.html>>}]

\* generate_page on the filesystem fs (existing directories, written files),
\* page being full_html or the exception raised before it
generate_page(fs, page, dest_path) ==
    IF page.err # NoError THEN [err |-> page.err, dirs |-> fs.dirs, files |-> fs.files]
    ELSE [err |-> NoError,
          dirs |-> IF Dirname(dest_path) # <<>> /\ Dirname(dest_path) \notin fs.dirs
                   THEN Makedirs(fs.dirs, Dirname(dest_path)) ELSE fs.dirs,
          files |-> {f \in fs.files : f[1] # dest_path} \cup {<<dest_path, page.html>>}]

(***************************************************************************)
(* copy_directory_contents on a filesystem fs: the set dirs of the paths   *)
(* of the directories and the set files of <<path, content>> pairs         *)
(***************************************************************************)
IsDir(fs, path) == path \in fs.dirs

IsFile(fs, path) == \E f \in fs.files : f[1] = path

Exists(fs, path) == IsDir(fs, path) \/ IsFile(fs, path)

\* shutil.rmtree(path)
Rmtree(fs, path) ==
    [dirs |-> {d \in fs.dirs : ~StartsWith(d, path)},
     files |-> {f \in fs.files : ~StartsWith(f[1], path)}]

\* os.listdir(path): the names of the entries directly below path
Listdir(fs, path) ==
    { q[Len(q)] : q \in { e \in fs.dirs \cup {f[1] : f \in fs.files} :
                             Len(e) = Len(path) + 1 /\ StartsWith(e, path) } }

\* variant that creates the destination without clearing it first
Cleared_keep(fs, dest_dir) ==
    [dirs |-> Makedirs(fs.dirs, dest_dir), files |-> fs.files]

\* the filesystem after "if os.path.exists(dest_dir): shutil.rmtree(dest_dir)"
\* and os.makedirs(dest_dir)
Cleared(fs, dest_dir) ==
    [dirs |-> Makedirs((IF Exists(fs, dest_dir) THEN Rmtree(fs, dest_dir) ELSE fs).dirs,
                       dest_dir),
     files |-> (IF Exists(fs, dest_dir) THEN Rmtree(fs, dest_dir) ELSE fs).files]

\* shutil.copy2(src_path, dest_path) of a regular file
Copy2(fs, src_path, dest_path) ==
    [dirs |-> fs.dirs,
     files |-> {f \in fs.files : f[1] # dest_path}
                  \cup {<<dest_path, f[2]>> : f \in {g \in fs.files : g[1] = src_path}}]

\* the state of a run that raised: the exception leaves every active call
Raised(fs, error) ==
    [status |-> "raised", error |-> error, stack |-> <<>>, dirs |-> fs.dirs, files |-> fs.files]

\* the call _copy_recursive(src, dest) made with the calls of stack active:
\* os.listdir(src) raises when src is not a directory
CopyRecursive(fs, src, dest, stack) ==
    IF ~IsDir(fs, src)
    THEN Raised(fs, IF IsFile(fs, src) THEN "NotADirectoryError" ELSE "FileNotFoundError")
    ELSE [status |-> "running", error |-> NoError,
          stack |-> <<[items |-> Listdir(fs, src), src |-> src, dest |-> dest]>> \o stack,
          dirs |-> fs.dirs, files |-> fs.files]

(***************************************************************************)
(* Bounded inputs                                                          *)
(***************************************************************************)
RECURSIVE Strings(_, _)
\* the concatenations of at most n pieces of P
Strings(P, n) ==
    IF n = 0 THEN {<<>>}
    ELSE LET S == Strings(P, n - 1) IN S \cup {s \o p : s \in S, p \in P}

RECURSIVE Lists(_, _)
\* the non-empty lists of at most n elements of S
Lists(S, n) ==
    IF n = 1 THEN {<<x>> : x \in S}
    ELSE LET L == Lists(S, n - 1) IN L \cup {l \o <<x>> : l \in L, x \in S}

MaxInlinePieces == 4

InlinePieces ==
    { <<"a">>, <<" ">>, <<"*">>, <<"_">>, <<BT>>, <<"!">>, <<"[">>,
      <<"[", "a", "]">>, <<"(", "u", ")">> }

\* the image-then-link text of the tokenizer's tests, ![a](u1)[b](u2)
ImageLinkExample ==
    <<"!", "[", "a", "]", "(", "u", "1", ")", "[", "b", "]", "(", "u", "2", ")">>

\* an emphasis, an image with an empty url and a link in one text, *a*![b]()[c](u)
MixedExample ==
    <<"*", "a", "*", "!", "[", "b", "]", "(", ")", "[", "c", "]", "(", "u", ")">>

MaxAnchorPieces == 2

MarkChars == { <<"a">>, <<"*">>, <<"_">>, <<BT>> }

\* a link or an image whose anchor and url hold delimiter characters, followed
\* by at most one more character: [x](y)z and ![x](y)z
MarkedLinks ==
    { bang \o <<"[">> \o x \o <<"]", "(">> \o y \o <<")">> \o z :
        bang \in {<<>>, <<"!">>},
        x \in Strings(MarkChars, MaxAnchorPieces),
        y \in {<<>>} \cup MarkChars,
        z \in {<<>>} \cup MarkChars }

InlineInputs ==
    Strings(InlinePieces, MaxInlinePieces) \cup {ImageLinkExample, MixedExample} \cup MarkedLinks

MaxHeadingPieces == 4

HeadingPieces == { <<"#">>, <<"#", "#", "#", "#", "#", "#">>, <<" ">>, <<"a">>, <<NL>> }

MaxListLines == 3

\* the nine lines "1. a" .. "9. a" of an ordered list, as one piece
NineItems ==
    Join(<<NL>>, [i \in 1..9 |-> Str(i) \o <<".", " ", "a">>])

ListLines ==
    { <<"1", ".", " ", "a">>, <<"2", ".", " ", "a">>, <<"3", ".", " ", "a">>,
      <<"2", ".", "a">>, <<"1", ".", " ">>, <<"1", "0", ".", " ", "a">>, NineItems,
      <<"-", " ", "a">>, <<">", "a">>, <<">", " ", "a">>, <<"a">>, <<>> }

RECURSIVE LinesUpTo(_, _)
\* the blocks of at most n + 1 lines of L, joined with newlines
LinesUpTo(L, n) ==
    IF n = 0 THEN L
    ELSE LET S == LinesUpTo(L, n - 1) IN S \cup {s \o <<NL>> \o l : s \in S, l \in L}

MaxCodePieces == 5

CodePieces == { Fence, <<BT>>, <<NL>>, <<"a">>, <<"_", "a", "_">>, <<"*", "*">> }

\* item texts of an ordered list: plain, holding ". ", starting with ". ",
\* looking like a numeric prefix, empty
OrderedTexts ==
    { <<"a">>, <<"a", ".", " ", "a">>, <<".", " ">>, <<"1", ".", " ", "a">>, <<>> }

RECURSIVE Numbered(_)
\* the lines "1. t1" .. "n. tn" for a list of item texts, joined with newlines
Numbered(texts) ==
    IF Len(texts) = 1 THEN <<"1", ".", " ">> \o texts[1]
    ELSE Numbered(SubSeq(texts, 1, Len(texts) - 1))
         \o <<NL>> \o Str(Len(texts)) \o <<".", " ">> \o texts[Len(texts)]

OrderedInputs == { Numbered(texts) : texts \in Lists(OrderedTexts, MaxListLines) }

\* one line in the shape of each structural rule, to mix in one block
RuleLines ==
    { <<"#", " ", "a">>, Fence, <<">", "a">>, <<"-", " ", "a">>,
      <<"1", ".", " ", "a">>, <<"2", ".", " ", "a">> }

BlockInputs ==
    Strings(HeadingPieces, MaxHeadingPieces)
        \cup LinesUpTo(ListLines, MaxListLines - 1)
        \cup Strings(CodePieces, MaxCodePieces)
        \cup OrderedInputs
        \cup LinesUpTo(RuleLines, MaxListLines - 1)

MaxSpacePieces == 5

SpacePieces == { <<NL>>, <<" ">>, <<TAB>>, <<"a">>, <<"b">> }

MaxDocPieces == 4

DocPieces ==
    { <<NL, NL>>, <<"a">>, <<"#", " ">>, <<"-", " ", "a", NL>>, <<"1", ".", " ">>,
      <<"*">>, <<">">>, Fence \o <<NL, "_", "a", "_", NL>> \o Fence }

DocInputs == Strings(SpacePieces, MaxSpacePieces) \cup Strings(DocPieces, MaxDocPieces)

MaxFragmentText == 2

FragmentChars == { <<"a">>, <<"<">>, <<NL>> }

\* node_type values outside the six members funcs.py tests for
ForeignTypes == { "UNDERLINED", "None" }

MaxFragmentPieces == 3

FragmentPieces ==
    { <<"a">>, <<"*", "*">>, <<"*">>, <<"_">>, <<BT>>,
      <<"!", "[", "a", "]", "(", "u", ")">>, <<"[", "a", "]", "(", ")">> }

Range(q) == { q[i] : i \in 1..Len(q) }

\* the fragments text_to_textnodes returns on bounded texts
PipelineFragments ==
    UNION { Range(text_to_textnodes(t).nodes) : t \in Strings(FragmentPieces, MaxFragmentPieces) }

\* TextNode objects of any type, the pipeline's and hand-built ones
FragmentInputs ==
    PipelineFragments
        \cup { TextNode(text, node_type, URL) :
                 text \in Strings(FragmentChars, MaxFragmentText),
                 node_type \in TextType \cup ForeignTypes,
                 URL \in {None, <<>>, <<"u">>} }

MaxChildren == 3

MaxDepth == 2

ClassProp == <<<<"c", "l", "a", "s", "s">>, <<"c">>>>

IdProp == <<<<"i", "d">>, <<"m">>>>

\* leaves that serialize: raw text, a tagged text, an img with two attributes
GoodLeaves ==
    { LeafNode(None, <<"a">>, <<>>),
      LeafNode(<<"b">>, <<"<", "a">>, <<>>),
      LeafNode(<<"i", "m", "g">>, <<>>, << <<<<"s", "r", "c">>, <<"u">>>>, <<<<"a", "l", "t">>, <<"a">>>> >>) }

\* nodes whose to_html raises: a Leaf without value, a Parent without children
\* (empty list, None), a Parent without tag
BadNodes ==
    { LeafNode(<<"p">>, None, <<>>),
      ParentNode(<<"p">>, <<>>, <<>>),
      ParentNode(<<"p">>, NoneChildren, <<>>),
      ParentNode(None, <<LeafNode(None, <<"a">>, <<>>)>>, <<>>) }

\* Parents of at most n leaves, with no, one and two attributes
FlatParents(n) ==
    { ParentNode(<<"d", "i", "v">>, children, props) :
        children \in Lists(GoodLeaves, n),
        props \in {<<>>, <<ClassProp>>, <<ClassProp, IdProp>>} }

RECURSIVE Nested(_)
\* trees of at most n more levels around the leaves, the bad nodes and the
\* Parents of one leaf
Nested(n) ==
    IF n = 0 THEN GoodLeaves \cup BadNodes \cup FlatParents(1)
    ELSE LET T == Nested(n - 1)
         IN T \cup { ParentNode(<<"p">>, <<t>>, <<>>) : t \in T }
              \cup { ParentNode(None, <<t>>, <<>>) : t \in T }
              \cup { ParentNode(<<"p">>, <<LeafNode(None, <<"a">>, <<>>), t>>, <<ClassProp>>) : t \in T }
              \cup { ParentNode(<<"p">>, <<t, LeafNode(<<"b">>, <<"<", "a">>, <<>>)>>, <<>>) : t \in T }

HtmlInputs == FlatParents(MaxChildren) \cup Nested(MaxDepth)

MaxTitlePieces == 5

TitlePieces == { <<"#", " ">>, <<"#", "#", " ">>, <<"#">>, <<" ">>, <<"a">>, <<NL>> }

\* a level-2 heading line, then a level-1 line with a space before the '#'
\* and two spaces after it
TitleExample == <<"#", "#", " ", "a", NL, " ", "#", " ", " ", "a">>

TitleInputs == Strings(TitlePieces, MaxTitlePieces) \cup {TitleExample}

MaxItems == 3

\* a document that converts and has a title; one without title; one with an
\* unmatched delimiter; the empty document
GoodDoc == <<"#", " ", "a">>

NoTitleDoc == <<"a">>

MalformedDoc == <<"#", " ", "*", "a">>

EmptyDoc == <<>>

File(name, content) == [name |-> name, kind |-> "file", content |-> content, items |-> <<>>]

Directory(name, items) == [name |-> name, kind |-> "dir", content |-> <<>>, items |-> items]

FileEntries ==
    { File(<<"a", ".", "m", "d">>, content) : content \in {GoodDoc, NoTitleDoc, MalformedDoc, EmptyDoc} }
        \cup { File(<<"b", ".", "m", "d">>, content) : content \in {GoodDoc, MalformedDoc} }
        \cup { File(<<"c", ".", "t", "x", "t">>, GoodDoc) }

\* the listings of a subdirectory
SubListings ==
    { <<>>,
      <<File(<<"a", ".", "m", "d">>, GoodDoc)>>,
      <<File(<<"a", ".", "m", "d">>, MalformedDoc)>>,
      <<File(<<"a", ".", "m", "d">>, GoodDoc), File(<<"b", ".", "m", "d">>, GoodDoc)>> }

Names(items) == { items[i].name : i \in 1..Len(items) }

RECURSIVE Listings(_, _)
\* what os.listdir can return for a directory of at most n entries of E: the
\* entries in any order, no name twice
Listings(E, n) ==
    IF n = 0 THEN {<<>>}
    ELSE LET L == Listings(E, n - 1)
         IN L \cup { pair[1] \o <<pair[2]>> :
                       pair \in { q \in L \X E : q[2].name \notin Names(q[1]) } }

\* the content directory, when it exists, and whether the destination does
BatchInputs ==
    { [exists |-> TRUE, items |-> items, dest_exists |-> dest_exists] :
        items \in Listings(FileEntries \cup { Directory(<<"d">>, l) : l \in SubListings },
                           MaxItems),
        dest_exists \in BOOLEAN }
        \cup { [exists |-> FALSE, items |-> <<>>, dest_exists |-> FALSE] }

\* the template file of the batch
Template == <<"<", "a", " ", "h", "r", "e", "f", "=", "\"", "/", "\"", ">", "{", "{", " ", "T", "i", "t", "l", "e", " ", "}", "}", "<", "/", "a", ">", "{", "{", " ", "C", "o", "n", "t", "e", "n", "t", " ", "}", "}">>

\* the default of the parameter basepath
BasePath == <<"/">>

\* dir_path_content and dest_dir_path of the batch
ContentRoot == << <<"c">> >>

DestRoot == << <<"p">> >>

MaxPagePieces == 3

PagePieces == { <<"#", " ">>, <<"a">>, <<"*">>, <<">">>, <<NL, NL>> }

HtmlName == <<"a", ".", "h", "t", "m", "l">>

\* the destination paths of one page: in the destination root, in a
\* subdirectory of it, and a bare file name without directory
PagePaths == { DestRoot \o <<HtmlName>>, DestRoot \o << <<"d">>, HtmlName >>, <<HtmlName>> }

\* the content of a destination file written by an earlier run
StalePage == <<"o", "l", "d">>

\* one call of generate_page: the markdown file's content, the destination
\* path, and the filesystem before the call, where the first n directories of
\* the destination path exist and, when all of them do, the destination file
\* may exist with stale content
PageInputs ==
    { [markdown |-> markdown, dest_path |-> c[1],
       fs |-> [dirs |-> { Slice(c[1], 1, k) : k \in 1..c[2] },
               files |-> IF c[3] THEN {<<c[1], StalePage>>} ELSE {}]] :
        markdown \in Strings(PagePieces, MaxPagePieces),
        c \in { q \in PagePaths \X (0..2) \X BOOLEAN :
                  /\ q[2] <= Len(q[1]) - 1
                  /\ q[3] => q[2] = Len(q[1]) - 1 } }

MaxCopyDepth == 2

EmptyTree == [dirs |-> {}, files |-> {}]

\* the tree t below a directory called name
Under(name, t) ==
    [dirs |-> {<<name>>} \cup {<<name>> \o d : d \in t.dirs},
     files |-> {<<(<<name>> \o f[1]), f[2]>> : f \in t.files}]

Merged(t, u) == [dirs |-> t.dirs \cup u.dirs, files |-> t.files \cup u.files]

\* a directory with or without a file f, of one of two contents
TopFiles ==
    { EmptyTree,
      [dirs |-> {}, files |-> {<<(<<"f">>), "1">>}],
      [dirs |-> {}, files |-> {<<(<<"f">>), "2">>}] }

RECURSIVE Chain(_)
\* directory trees with at most n levels of subdirectories d
Chain(n) ==
    IF n = 0 THEN TopFiles
    ELSE TopFiles \cup { Merged(top, Under("d", t)) : top \in TopFiles, t \in Chain(n - 1) }

\* what the destination holds before the call: trees like the source's, and
\* one with a directory f, a file d and a file g
StaleTrees ==
    Chain(1) \cup { [dirs |-> {<<"f">>},
                     files |-> {<<(<<"d">>), "3">>, <<(<<"f", "x">>), "3">>, <<(<<"g">>), "3">>}] }

\* the tree t at the absolute path at
Placed(t, at) ==
    [dirs |-> Makedirs({at \o d : d \in t.dirs}, at),
     files |-> {<<(at \o f[1]), f[2]>> : f \in t.files}]

\* the filesystem and the arguments of the call: source s and destination p
\* side by side (p present or not), source and destination the same directory,
\* and the source p/s inside the destination p
CopyInputs ==
    { [fs |-> Merged(Placed(t, <<"s">>), Placed(u, <<"p">>)),
       src_dir |-> <<"s">>, dest_dir |-> <<"p">>] : t \in Chain(MaxCopyDepth), u \in StaleTrees }
        \cup { [fs |-> Placed(t, <<"s">>), src_dir |-> <<"s">>, dest_dir |-> <<"p">>]
                 : t \in Chain(MaxCopyDepth) }
        \cup { [fs |-> Placed(t, <<"s">>), src_dir |-> <<"s">>, dest_dir |-> <<"s">>]
                 : t \in Chain(MaxCopyDepth) }
        \cup { [fs |-> Placed(t, <<"p", "s">>), src_dir |-> <<"p", "s">>, dest_dir |-> <<"p">>]
                 : t \in Chain(MaxCopyDepth) }

MaxPassPieces == 3

MaxNodes == 3

ImageText == <<"!", "[", "a", "]", "(", "u", ")">>

LinkText == <<"[", "a", "]", "(", "u", ")">>

PassPieces == { <<"a">>, <<"*">>, <<"_">>, <<BT>>, ImageText, LinkText }

\* fragments left by earlier passes, with markup inside their text, and TEXT
\* fragments with and without markup
NodePool ==
    { TextNode(<<"*", "a", "*">>, "BOLD", None),
      TextNode(<<"a", "_", "b", "_">>, "CODE", None),
      TextNode(ImageText \o LinkText, "ITALIC", None),
      TextNode(<<BT, "a", BT>>, "LINK", <<"u">>),
      TextNode(<<"a">>, "IMAGE", <<"u">>),
      TextNode(<<"a">>, "TEXT", None),
      TextNode(<<"*", "a", "*", "_", "b", "_", BT, "c", BT>>, "TEXT", None),
      TextNode(ImageText \o <<"a">> \o LinkText, "TEXT", None),
      TextNode(<<"a", "*">>, "TEXT", None) }

\* a text that starts with the delimiter '_' and holds two delimited runs side
\* by side, _a__a_a
DelimiterExample == <<"_", "a", "_", "_", "a", "_", "a">>

\* the delimiter and text_type arguments text_to_textnodes passes
PassArguments ==
    { <<(<<"*", "*">>), "BOLD">>, <<(<<"*">>), "ITALIC">>,
      <<(<<"_">>), "ITALIC">>, <<(<<BT>>), "CODE">> }

\* the arguments of one call of a splitting pass: one TEXT node of any
\* bounded text, or a list of nodes of the pool
PassInputs ==
    { [old_nodes |-> old_nodes, delimiter |-> a[1], text_type |-> a[2]] :
        old_nodes \in { <<TextNode(t, "TEXT", None)>> : t \in Strings(PassPieces, MaxPassPieces) }
                          \cup Lists(NodePool, MaxNodes)
                          \cup {<<>>, <<TextNode(DelimiterExample, "TEXT", None)>>},
        a \in PassArguments }

Pending == [err |-> "pending"]

(***************************************************************************)
(* Inline tokenizer: one call of text_to_textnodes on a text               *)
(***************************************************************************)
InitInline ==
    /\ input \in InlineInputs
    /\ op = "none"
    /\ result = Pending

TextToTextnodes ==
    /\ op = "none"
    /\ op' = "text_to_textnodes"
    /\ result' = text_to_textnodes(input)
    /\ UNCHANGED input

NextInline == TextToTextnodes

SpecInline == InitInline /\ [][NextInline]_vars

(***************************************************************************)
(* Block level: classification or conversion of one block                  *)
(***************************************************************************)
InitBlock ==
    /\ input \in BlockInputs
    /\ op = "none"
    /\ result = Pending

BlockToBlockType ==
    /\ op = "none"
    /\ op' = "block_to_block_type"
    /\ result' = block_to_block_type(input)
    /\ UNCHANGED input

BlockToHtmlNode ==
    /\ op = "none"
    /\ op' = "block_to_html_node"
    /\ result' = block_to_html_node(input)
    /\ UNCHANGED input

NextBlock == BlockToBlockType \/ BlockToHtmlNode

SpecBlock == InitBlock /\ [][NextBlock]_vars

(***************************************************************************)
(* Document level: splitting or conversion of one document                 *)
(***************************************************************************)
Init ==
    /\ input \in DocInputs
    /\ op = "none"
    /\ result = Pending

MarkdownToBlocks ==
    /\ op = "none"
    /\ op' = "markdown_to_blocks"
    /\ result' = markdown_to_blocks(input)
    /\ UNCHANGED input

MarkdownToHtmlNode ==
    /\ op = "none"
    /\ op' = "markdown_to_html_node"
    /\ result' = markdown_to_html_node(input)
    /\ UNCHANGED input

Next == MarkdownToBlocks \/ MarkdownToHtmlNode

Spec == Init /\ [][Next]_vars

(***************************************************************************)
(* Fragment level: one call of text_node_to_html_node on a TextNode        *)
(***************************************************************************)
InitFragment ==
    /\ input \in FragmentInputs
    /\ op = "none"
    /\ result = Pending

TextNodeToHtmlNode ==
    /\ op = "none"
    /\ op' = "text_node_to_html_node"
    /\ result' = text_node_to_html_node(input)
    /\ UNCHANGED input

NextFragment == TextNodeToHtmlNode

SpecFragment == InitFragment /\ [][NextFragment]_vars

(***************************************************************************)
(* Node level: one call of to_html on a tree                               *)
(***************************************************************************)
InitHtml ==
    /\ input \in HtmlInputs
    /\ op = "none"
    /\ result = Pending

ToHtml ==
    /\ op = "none"
    /\ op' = "to_html"
    /\ result' = to_html(input)
    /\ UNCHANGED input

NextHtml == ToHtml

SpecHtml == InitHtml /\ [][NextHtml]_vars

(***************************************************************************)
(* Title: one call of extract_title on a document                          *)
(***************************************************************************)
InitTitle ==
    /\ input \in TitleInputs
    /\ op = "none"
    /\ result = Pending

ExtractTitle ==
    /\ op = "none"
    /\ op' = "extract_title"
    /\ result' = extract_title(input)
    /\ UNCHANGED input

NextTitle == ExtractTitle

SpecTitle == InitTitle /\ [][NextTitle]_vars

(***************************************************************************)
(* Batch: generate_pages_recursive over a content directory, one item of   *)
(* a listing per step.  result holds the call stack (one frame per active  *)
(* call: the items left of its listing, its source and destination         *)
(* directory), the directories and files of the destination, and whether   *)
(* the outermost call is running, has returned or has raised.              *)
(***************************************************************************)
InitBatch ==
    /\ input \in BatchInputs
    /\ op = "none"
    /\ result = Pending

Frame(items, src, dest) == [items |-> items, src |-> src, dest |-> dest]

\* the call generate_pages_recursive(dir_path_content, template_path, dest_dir_path)
StartBatch ==
    /\ op = "none"
    /\ op' = "generate_pages_recursive"
    /\ result' =
          [ status |-> IF input.exists THEN "running" ELSE "returned",
            error |-> NoError,
            stack |-> IF input.exists THEN <<Frame(input.items, ContentRoot, DestRoot)>>
                      ELSE <<>>,
            dirs |-> IF input.dest_exists THEN {DestRoot} ELSE {},
            files |-> {} ]
    /\ UNCHANGED input

Running == op = "generate_pages_recursive" /\ result.status = "running"

Top == Head(result.stack)

Item == Head(Top.items)

\* the stack with the current item taken off the listing of the top frame
Advanced == <<[Top EXCEPT !.items = Tail(Top.items)]>> \o Tail(result.stack)

\* the destination path of the current item, ".md" replaced by ".html"
HtmlPath ==
    Top.dest \o << Slice(Item.name, 1, Len(Item.name) - 3) \o <<".", "h", "t", "m", "l">> >>

\* the effect of generate_page on the run: an exception leaves every frame
Generated(page) ==
    IF page.err # NoError
    THEN [result EXCEPT !.status = "raised", !.error = page.err, !.stack = <<>>,
                        !.dirs = page.dirs, !.files = page.files]
    ELSE [result EXCEPT !.stack = Advanced, !.dirs = page.dirs, !.files = page.files]

\* a markdown file: generate_page
GeneratePage ==
    /\ Running
    /\ Top.items # <<>>
    /\ Item.kind = "file"
    /\ EndsWith(Item.name, <<".", "m", "d">>)
    /\ result' = Generated(generate_page([dirs |-> result.dirs, files |-> result.files],
                                         full_html(Template, Item.content, BasePath),
                                         HtmlPath))
    /\ UNCHANGED <<input, op>>

\* a file that is not a markdown file: nothing
SkipFile ==
    /\ Running
    /\ Top.items # <<>>
    /\ Item.kind = "file"
    /\ ~EndsWith(Item.name, <<".", "m", "d">>)
    /\ result' = [result EXCEPT !.stack = Advanced]
    /\ UNCHANGED <<input, op>>

\* a directory: the recursive call
EnterDirectory ==
    /\ Running
    /\ Top.items # <<>>
    /\ Item.kind = "dir"
    /\ result' = [result EXCEPT !.stack =
                      <<Frame(Item.items, Top.src \o <<Item.name>>, Top.dest \o <<Item.name>>)>>
                          \o Advanced]
    /\ UNCHANGED <<input, op>>

\* the end of a listing: the call returns to its caller
ReturnFromDirectory ==
    /\ Running
    /\ Top.items = <<>>
    /\ result' = [result EXCEPT !.stack = Tail(result.stack),
                                !.status = IF Tail(result.stack) = <<>> THEN "returned"
                                           ELSE "running"]
    /\ UNCHANGED <<input, op>>

NextBatch ==
    \/ StartBatch
    \/ GeneratePage
    \/ SkipFile
    \/ EnterDirectory
    \/ ReturnFromDirectory

SpecBatch == InitBatch /\ [][NextBatch]_vars

(***************************************************************************)
(* Copy: copy_directory_contents, one item of a listing per step.  result  *)
(* holds the call stack of _copy_recursive and the filesystem.             *)
(***************************************************************************)
InitCopy ==
    /\ input \in CopyInputs
    /\ op = "none"
    /\ result = Pending

\* copy_directory_contents up to the listing of src_dir
StartCopy ==
    /\ op = "none"
    /\ op' = "copy_directory_contents"
    /\ result' = IF IsFile(input.fs, input.dest_dir)
                 THEN Raised(input.fs, "NotADirectoryError")
                 ELSE CopyRecursive(Cleared(input.fs, input.dest_dir),
                                    input.src_dir, input.dest_dir, <<>>)
    /\ UNCHANGED input

Copying == op = "copy_directory_contents" /\ result.status = "running"

Fs == [dirs |-> result.dirs, files |-> result.files]

\* the stack with item taken off the listing of the top frame
Without(item) == <<[Top EXCEPT !.items = Top.items \ {item}]>> \o Tail(result.stack)

\* a regular file: shutil.copy2
CopyFile ==
    /\ Copying
    /\ \E item \in Top.items :
          /\ IsFile(Fs, Top.src \o <<item>>)
          /\ result' = IF IsDir(Fs, Top.dest \o <<item>>)
                       THEN Raised(Fs, "IsADirectoryError")
                       ELSE [result EXCEPT
                               !.stack = Without(item),
                               !.files = Copy2(Fs, Top.src \o <<item>>,
                                               Top.dest \o <<item>>).files]
    /\ UNCHANGED <<input, op>>

\* a directory: os.makedirs(dest_path), then the recursive call
CopyDirectory ==
    /\ Copying
    /\ \E item \in Top.items :
          /\ IsDir(Fs, Top.src \o <<item>>)
          /\ result' = IF Exists(Fs, Top.dest \o <<item>>)
                       THEN Raised(Fs, "FileExistsError")
                       ELSE CopyRecursive([dirs |-> Makedirs(Fs.dirs, Top.dest \o <<item>>),
                                           files |-> Fs.files],
                                          Top.src \o <<item>>, Top.dest \o <<item>>,
                                          Without(item))
    /\ UNCHANGED <<input, op>>

\* the end of a listing: _copy_recursive returns to its caller
ReturnFromCopy ==
    /\ Copying
    /\ Top.items = {}
    /\ result' = [result EXCEPT !.stack = Tail(result.stack),
                                !.status = IF Tail(result.stack) = <<>> THEN "returned"
                                           ELSE "running"]
    /\ UNCHANGED <<input, op>>

NextCopy ==
    \/ StartCopy
    \/ CopyFile
    \/ CopyDirectory
    \/ ReturnFromCopy

SpecCopy == InitCopy /\ [][NextCopy]_vars

(***************************************************************************)
(* Page level: one call of generate_page on a markdown file                *)
(***************************************************************************)
InitPage ==
    /\ input \in PageInputs
    /\ op = "none"
    /\ result = Pending

GenerateOnePage ==
    /\ op = "none"
    /\ op' = "generate_page"
    /\ result' = generate_page(input.fs, full_html(Template, input.markdown, BasePath),
                               input.dest_path)
    /\ UNCHANGED input

NextPage == GenerateOnePage

SpecPage == InitPage /\ [][NextPage]_vars

(***************************************************************************)
(* Pass level: one call of a splitting pass on a list of nodes             *)
(***************************************************************************)
InitPass ==
    /\ input \in PassInputs
    /\ op = "none"
    /\ result = Pending

SplitNodesDelimiter ==
    /\ op = "none"
    /\ op' = "split_nodes_delimiter"
    /\ result' = split_nodes_delimiter(input.old_nodes, input.delimiter, input.text_type)
    /\ UNCHANGED input

SplitNodesImage ==
    /\ op = "none"
    /\ op' = "split_nodes_image"
    /\ result' = split_nodes_image(input.old_nodes)
    /\ UNCHANGED input

SplitNodesLink ==
    /\ op = "none"
    /\ op' = "split_nodes_link"
    /\ result' = split_nodes_link(input.old_nodes)
    /\ UNCHANGED input

NextPass == SplitNodesDelimiter \/ SplitNodesImage \/ SplitNodesLink

SpecPass == InitPass /\ [][NextPass]_vars

(***************************************************************************)
(* Properties                                                              *)
(***************************************************************************)
RECURSIVE CountOcc(_, _)
\* number of occurrences of d in s, non-overlapping, greedy left to right
CountOcc(s, d) ==
    LET i == Find(s, d, 1)
    IN IF i = 0 THEN 0 ELSE 1 + CountOcc(Slice(s, i + Len(d), Len(s)), d)

Chars(s) == {s[i] : i \in 1..Len(s)}

RECURSIVE SelectType(_, _)
\* the nodes of one node_type, in order
SelectType(nodes, node_type) ==
    IF nodes = <<>> THEN <<>>
    ELSE (IF Head(nodes).node_type = node_type THEN <<Head(nodes)>> ELSE <<>>)
         \o SelectType(Tail(nodes), node_type)

RECURSIVE InOrder(_, _, _)
\* the blocks occur in doc one after the other, without overlap, from index from
InOrder(doc, blocks, from) ==
    IF blocks = <<>> THEN TRUE
    ELSE LET i == Find(doc, Head(blocks), from)
         IN i # 0 /\ InOrder(doc, Tail(blocks), i + Len(Head(blocks)))

DivOpen == <<"<", "d", "i", "v", ">">>

DivClose == <<"<", "/", "d", "i", "v", ">">>

RECURSIVE BlocksHtml(_)
\* the serializations of the blocks' nodes, concatenated in block order
BlocksHtml(blocks) ==
    IF blocks = <<>> THEN <<>>
    ELSE to_html(block_to_html_node(Head(blocks)).node).html \o BlocksHtml(Tail(blocks))

\* C1: when markdown_to_html_node succeeds it returns a Parent with tag div
\* whose children are, in document order, the block_to_html_node of each block
\* of markdown_to_blocks; when that tree serializes, the result is <div>, the
\* blocks' HTML in source order, </div>.
C1_DivOfBlocks ==
    (op = "markdown_to_html_node" /\ result.err = NoError) =>
        LET blocks == markdown_to_blocks(input)
            node == result.node
            h == to_html(node)
        IN /\ node.kind = "ParentNode"
           /\ node.tag = <<"d", "i", "v">>
           /\ Len(node.children) = Len(blocks)
           /\ \A i \in 1..Len(blocks) :
                 /\ block_to_html_node(blocks[i]).err = NoError
                 /\ node.children[i] = block_to_html_node(blocks[i]).node
           /\ h.err = NoError =>
                 /\ StartsWith(h.html, DivOpen)
                 /\ EndsWith(h.html, DivClose)
                 /\ h.html = DivOpen \o BlocksHtml(blocks) \o DivClose

\* a converted document of at least two blocks of different kinds
C1_Witness ==
    /\ op = "markdown_to_html_node"
    /\ result.err = NoError
    /\ Len(result.node.children) >= 2
    /\ result.node.children[1].tag # result.node.children[2].tag
    /\ to_html(result.node).err = NoError

Delimiters == { <<"*", "*">>, <<"*">>, <<"_">>, <<BT>> }

Odd(n) == n % 2 = 1

\* some TEXT node of nodes holds the delimiter d an odd number of times
OddIn(nodes, d) ==
    \E i \in 1..Len(nodes) :
        nodes[i].node_type = "TEXT" /\ Odd(CountOcc(nodes[i].text, d))

\* some pass of text_to_textnodes meets a TEXT fragment with an odd count
PassFails(s) ==
    \/ OddIn(Seed(s).nodes, <<"*", "*">>)
    \/ AfterBold(s).err = NoError /\ OddIn(AfterBold(s).nodes, <<"*">>)
    \/ AfterStar(s).err = NoError /\ OddIn(AfterStar(s).nodes, <<"_">>)
    \/ AfterUnderscore(s).err = NoError /\ OddIn(AfterUnderscore(s).nodes, <<BT>>)

\* C2 as stated: whenever one of the delimiters occurs an odd number of times
\* in s, text_to_textnodes(s) fails, and whenever the delimiters occur an even
\* number of times in s, it succeeds.
C2_WholeStringParity ==
    op = "text_to_textnodes" =>
        /\ \A d \in Delimiters :
              Odd(CountOcc(input, d)) => result.err = "Invalid Markdown syntax"
        /\ (\A d \in Delimiters : ~Odd(CountOcc(input, d))) => result.err = NoError

\* C2 amended: text_to_textnodes(s) fails with "Invalid Markdown syntax"
\* exactly when, at one of the passes **, *, _, backtick taken in this order,
\* a TEXT fragment present at that pass holds the pass's delimiter an odd
\* number of times; so it fails when ** occurs an odd number of times in s and
\* succeeds when no delimiter occurs in s.
C2_PerFragmentParity ==
    op = "text_to_textnodes" =>
        /\ result.err \in {NoError, "Invalid Markdown syntax"}
        /\ result.err = "Invalid Markdown syntax" <=> PassFails(input)
        /\ Odd(CountOcc(input, <<"*", "*">>)) => result.err = "Invalid Markdown syntax"
        /\ (\A d \in Delimiters : CountOcc(input, d) = 0) => result.err = NoError

\* a failure raised by a pass after the first, on a text whose whole-string
\* count of that pass's delimiter is even
C2_Witness ==
    /\ op = "text_to_textnodes"
    /\ result.err = "Invalid Markdown syntax"
    /\ AfterStar(input).err = NoError
    /\ OddIn(AfterStar(input).nodes, <<"_">>)
    /\ ~Odd(CountOcc(input, <<"_">>))

DelimiterFree(s) == Chars(s) \cap {"*", "_", BT} = {}

RECURSIVE AsNodes(_, _)
\* the matches (group 1, group 2) as nodes of one node_type
AsNodes(matches, node_type) ==
    IF matches = <<>> THEN <<>>
    ELSE <<TextNode(Head(matches)[1], node_type, Head(matches)[2])>>
         \o AsNodes(Tail(matches), node_type)

\* C3: in delimiter-free text the IMAGE fragments of text_to_textnodes are, in
\* order, the image occurrences of the text (content = alt, target = url), and
\* the LINK fragments are the link occurrences not preceded by '!', so no image
\* is emitted as a link; ![a](u1)[b](u2) gives exactly IMAGE(a,u1), LINK(b,u2).
C3_ImageBeforeLink ==
    (op = "text_to_textnodes" /\ DelimiterFree(input)) =>
        /\ result.err = NoError
        /\ SelectType(result.nodes, "IMAGE")
              = AsNodes(extract_markdown_images(input), "IMAGE")
        /\ SelectType(result.nodes, "LINK")
              = AsNodes(extract_markdown_links(input), "LINK")
        /\ input = ImageLinkExample =>
              result.nodes = << TextNode(<<"a">>, "IMAGE", <<"u", "1">>),
                                TextNode(<<"b">>, "LINK", <<"u", "2">>) >>

\* the image directly followed by a link has been tokenized
C3_Witness ==
    /\ op = "text_to_textnodes"
    /\ input = ImageLinkExample
    /\ Len(result.nodes) = 2
    /\ result.nodes[1].node_type = "IMAGE"

\* C4: block_to_block_type returns one of the six BlockType values for every
\* string, the empty string and multi-line strings included, and never raises.
C4_ClassifyTotal ==
    op = "block_to_block_type" => result \in BlockType

\* the empty string has been classified
C4_Witness ==
    /\ op = "block_to_block_type"
    /\ input = <<>>
    /\ result = "PARAGRAPH"

\* the block begins with a run of n '#', 1 <= n <= 6, followed by a space
HeadingShape(block) ==
    \E n \in 1..6 :
        /\ Len(block) >= n + 1
        /\ \A i \in 1..n : block[i] = "#"
        /\ block[n + 1] = " "

\* C5: block_to_block_type returns HEADING exactly when the block begins with
\* 1 to 6 '#' characters and the character right after the run is a space.
C5_HeadingBoundary ==
    op = "block_to_block_type" => (result = "HEADING" <=> HeadingShape(input))

\* seven '#' and a space: classified, and not a heading
C5_Witness ==
    /\ op = "block_to_block_type"
    /\ StartsWith(input, <<"#", "#", "#", "#", "#", "#", "#", " ">>)
    /\ result = "PARAGRAPH"

Digits == {"0", "1", "2", "3", "4", "5", "6", "7", "8", "9"}

\* line i (counted from 1) starts with the decimal string of i, then ". "
OrderedShape(block) ==
    LET lines == Split(block, <<NL>>)
    IN \A i \in 1..Len(lines) : StartsWith(lines[i], Str(i) \o <<".", " ">>)

\* C6: block_to_block_type returns ORDERED_LIST exactly when every line i
\* (0-indexed) starts with the decimal string of i+1 followed by ". "; a block
\* that begins with a number but breaks this rule is PARAGRAPH.
C6_OrderedListStrict ==
    op = "block_to_block_type" =>
        /\ result = "ORDERED_LIST" <=> OrderedShape(input)
        /\ (input # <<>> /\ input[1] \in Digits /\ ~OrderedShape(input))
              => result = "PARAGRAPH"

\* a numbered block with a gap (1. then 3.) has been classified PARAGRAPH
C6_Witness ==
    /\ op = "block_to_block_type"
    /\ input = <<"1", ".", " ", "a", NL, "3", ".", " ", "a">>
    /\ result = "PARAGRAPH"

\* C7: block_to_block_type returns CODE for every block that starts and ends
\* with the fence, and never returns CODE for a block with a single fence at
\* its start and no second, closing fence.
C7_CodeNeedsClosingFence ==
    op = "block_to_block_type" =>
        /\ (StartsWith(input, Fence) /\ EndsWith(input, Fence)) => result = "CODE"
        /\ (StartsWith(input, Fence) /\ CountOcc(input, Fence) = 1) => result # "CODE"

\* the text after the first newline and before the final closing fence
Interior(block) == Slice(block, Find(block, <<NL>>, 1) + 1, Len(block) - Len(Fence))

\* C8: for every block classified CODE, block_to_html_node returns a pre Parent
\* with exactly one child, a code Leaf whose text is the interior of the block
\* copied verbatim.
C8_CodeRawPreserved ==
    (op = "block_to_html_node" /\ block_to_block_type(input) = "CODE") =>
        /\ result.err = NoError
        /\ result.node = ParentNode(<<"p", "r", "e">>,
                            <<LeafNode(<<"c", "o", "d", "e">>, Interior(input), <<>>)>>, <<>>)

\* C9: every block markdown_to_blocks returns is non-empty, has no leading or
\* trailing whitespace and no two consecutive newlines; the blocks occur in the
\* document in the returned order; a whitespace-only document gives no block.
C9_BlocksTrimmed ==
    op = "markdown_to_blocks" =>
        /\ \A i \in 1..Len(result) :
              /\ result[i] # <<>>
              /\ result[i][1] \notin Whitespace
              /\ result[i][Len(result[i])] \notin Whitespace
              /\ Find(result[i], <<NL, NL>>, 1) = 0
        /\ InOrder(input, result, 1)
        /\ Chars(input) \subseteq Whitespace => result = <<>>

\* three newlines in a row between two blocks: the second block is trimmed
C9_Witness ==
    /\ op = "markdown_to_blocks"
    /\ Find(input, <<"a", NL, NL, NL, "b">>, 1) # 0
    /\ Len(result) = 2

SpecialChars == {"*", "_", BT, "!", "[", "]", "(", ")"}

\* the TEXT fragment of s, alone, serializing to s
PlainRoundTrip(s) ==
    /\ result.err = NoError
    /\ result.nodes = <<TextNode(s, "TEXT", None)>>
    /\ LET leaf == text_node_to_html_node(result.nodes[1])
       IN leaf.err = NoError /\ to_html(leaf.node) = [err |-> NoError, html |-> s]

\* C10 as stated: for any string s without markdown special characters,
\* text_to_textnodes(s) is exactly one TEXT fragment with content s, and to_html
\* of its text_node_to_html_node is s.
C10_PlainRoundTripAny ==
    (op = "text_to_textnodes" /\ Chars(input) \cap SpecialChars = {}) =>
        PlainRoundTrip(input)

\* C10 amended: the same for any non-empty string s without markdown special
\* characters; for the empty string text_to_textnodes returns no fragment.
C10_PlainRoundTrip ==
    (op = "text_to_textnodes" /\ Chars(input) \cap SpecialChars = {}) =>
        IF input = <<>> THEN result = [err |-> NoError, nodes |-> <<>>]
        ELSE PlainRoundTrip(input)

\* a plain text with a space in it has been tokenized to one TEXT fragment
C10_Witness ==
    /\ op = "text_to_textnodes"
    /\ input = <<"a", " ", "a">>
    /\ result.err = NoError
    /\ Len(result.nodes) = 1
    /\ result.nodes[1].node_type = "TEXT"

\* C11: in every fragment sequence text_to_textnodes returns, each LINK or IMAGE
\* fragment carries a target that is not None (the empty string included), and
\* each TEXT, BOLD, ITALIC or CODE fragment carries the target None.
C11_TargetInvariant ==
    (op = "text_to_textnodes" /\ result.err = NoError) =>
        \A i \in 1..Len(result.nodes) :
            /\ result.nodes[i].node_type \in TextType
            /\ result.nodes[i].node_type \in {"LINK", "IMAGE"} <=> result.nodes[i].URL # None

\* an ITALIC fragment, an IMAGE with the empty target and a LINK, in one result
C11_Witness ==
    /\ op = "text_to_textnodes"
    /\ input = MixedExample
    /\ result.err = NoError
    /\ result.nodes = << TextNode(<<"a">>, "ITALIC", None),
                         TextNode(<<"b">>, "IMAGE", <<>>),
                         TextNode(<<"c">>, "LINK", <<"u">>) >>

\* the tag the claim gives each fragment kind (None: no tag)
LeafTag(node_type) ==
    CASE node_type = "TEXT" -> None
      [] node_type = "BOLD" -> <<"b">>
      [] node_type = "ITALIC" -> <<"i">>
      [] node_type = "CODE" -> <<"c", "o", "d", "e">>
      [] node_type = "LINK" -> <<"a">>
      [] node_type = "IMAGE" -> <<"i", "m", "g">>

\* C12: text_node_to_html_node maps TEXT to a Leaf with no tag, BOLD to b,
\* ITALIC to i, CODE to code (text = content, no attribute), LINK to a with
\* text = content and href = target, IMAGE to img with empty text and the
\* attributes src = target, alt = content in that order; any other kind raises
\* ValueError, which no fragment returned by text_to_textnodes does.
C12_FragmentToLeaf ==
    op = "text_node_to_html_node" =>
        /\ input.node_type \in TextType =>
              /\ result.err = NoError
              /\ result.node.kind = "LeafNode"
              /\ result.node.children = <<>>
              /\ result.node.tag = LeafTag(input.node_type)
              /\ result.node.value = (IF input.node_type = "IMAGE" THEN <<>> ELSE input.text)
              /\ result.node.props =
                    ( IF input.node_type = "LINK"
                      THEN << <<(<<"h", "r", "e", "f">>), input.URL>> >>
                      ELSE IF input.node_type = "IMAGE"
                      THEN << <<(<<"s", "r", "c">>), input.URL>>,
                              <<(<<"a", "l", "t">>), input.text>> >>
                      ELSE <<>> )
        /\ input.node_type \notin TextType => result.err = "ValueError"
        /\ input \in PipelineFragments => result.err = NoError

\* an IMAGE fragment returned by text_to_textnodes has been converted
C12_Witness ==
    /\ op = "text_node_to_html_node"
    /\ input \in PipelineFragments
    /\ input.node_type = "IMAGE"
    /\ result.err = NoError
    /\ result.node.tag = <<"i", "m", "g">>
    /\ Len(result.node.props) = 2

\* a ParentNode without tag or without children (empty list or None)
BadParent(node) ==
    /\ node.kind = "ParentNode"
    /\ node.tag = None \/ node.children = <<>> \/ node.children = NoneChildren

RECURSIVE HasBadParent(_)
\* the tree holds such a ParentNode, at its root or below
HasBadParent(node) ==
    \/ BadParent(node)
    \/ /\ node.kind = "ParentNode"
       /\ \E i \in 1..Len(node.children) : HasBadParent(node.children[i])

\* C13: to_html of a ParentNode whose children list is empty or None, or whose
\* tag is None, raises ValueError and renders nothing, also when that ParentNode
\* is nested anywhere in the tree being serialized.
C13_EmptyParentRejected ==
    (op = "to_html" /\ HasBadParent(input)) =>
        result = [err |-> "ValueError", html |-> <<>>]

\* a ParentNode without children, two levels down next to leaves that serialize
C13_Witness ==
    /\ op = "to_html"
    /\ ~BadParent(input)
    /\ Len(input.children) = 2
    /\ input.children[1].kind = "ParentNode"
    /\ ~BadParent(input.children[1])
    /\ input.children[1].children[1] = ParentNode(<<"p">>, <<>>, <<>>)
    /\ result.err = "ValueError"

\* C14 as stated: markdown_to_html_node fails whenever the document yields no
\* non-empty block after splitting and trimming.
C14_EmptyDocumentFails ==
    (op = "markdown_to_html_node" /\ markdown_to_blocks(input) = <<>>) =>
        result.err # NoError

\* C14 amended: on a document that yields no block markdown_to_html_node does
\* not fail, it returns a div Parent without children; the failure comes when
\* that tree is serialized, to_html of it raises ValueError.
C14_EmptyDocumentDiv ==
    (op = "markdown_to_html_node" /\ markdown_to_blocks(input) = <<>>) =>
        /\ result = [err |-> NoError, node |-> ParentNode(<<"d", "i", "v">>, <<>>, <<>>)]
        /\ to_html(result.node).err = "ValueError"

\* a document of blank lines only has been converted
C14_Witness ==
    /\ op = "markdown_to_html_node"
    /\ Find(input, <<NL, NL>>, 1) # 0
    /\ Chars(input) \subseteq Whitespace
    /\ result.err = NoError
    /\ result.node.children = <<>>

RECURSIVE AttrsUpTo(_, _)
\* the first n attributes, each as a space, the key, ="value"
AttrsUpTo(props, n) ==
    IF n = 0 THEN <<>>
    ELSE AttrsUpTo(props, n - 1)
         \o <<" ">> \o props[n][1] \o <<"=", "\"">> \o props[n][2] \o <<"\"">>

RECURSIVE ChildrenHtmlUpTo(_, _)
\* the serializations of the first n children, one after the other
ChildrenHtmlUpTo(children, n) ==
    IF n = 0 THEN <<>>
    ELSE ChildrenHtmlUpTo(children, n - 1) \o to_html(children[n]).html

\* a div with two attributes around a raw text, a b Leaf and an img Leaf
FormatExample ==
    ParentNode(<<"d", "i", "v">>,
               << LeafNode(None, <<"a">>, <<>>),
                  LeafNode(<<"b">>, <<"<", "a">>, <<>>),
                  LeafNode(<<"i", "m", "g">>, <<>>,
                           << <<(<<"s", "r", "c">>), <<"u">>>>, <<(<<"a", "l", "t">>), <<"a">>>> >>) >>,
               <<ClassProp, IdProp>>)

\* <div class="c" id="m">a<b><a</b><img src="u" alt="a"></img></div>
FormatExampleHtml ==
    <<"<", "d", "i", "v", " ", "c", "l", "a", "s", "s", "=", "\"", "c", "\"", " ", "i", "d", "=", "\"", "m", "\"", ">", "a", "<", "b", ">", "<", "a", "<", "/", "b", ">",
       "<", "i", "m", "g", " ", "s", "r", "c", "=", "\"", "u", "\"", " ", "a", "l", "t", "=", "\"", "a", "\"", ">",
       "<", "/", "i", "m", "g", ">", "<", "/", "d", "i", "v", ">">>

\* C15: to_html of a Parent with tag t renders <t, then for each attribute in
\* insertion order a space and key="value", then >, then the children's
\* serializations in order with nothing between them, then </t>; a Leaf
\* without tag renders its text unchanged, unescaped; a Leaf with a tag
\* renders <tag attrs>text</tag>.
C15_SerializationFormat ==
    (op = "to_html" /\ result.err = NoError) =>
        /\ (input.kind = "LeafNode" /\ input.tag = None) => result.html = input.value
        /\ (input.kind = "LeafNode" /\ input.tag # None) =>
              result.html = <<"<">> \o input.tag \o AttrsUpTo(input.props, Len(input.props))
                              \o <<">">> \o input.value
                              \o <<"<", "/">> \o input.tag \o <<">">>
        /\ input.kind = "ParentNode" =>
              /\ \A i \in 1..Len(input.children) : to_html(input.children[i]).err = NoError
              /\ result.html = <<"<">> \o input.tag \o AttrsUpTo(input.props, Len(input.props))
                                 \o <<">">> \o ChildrenHtmlUpTo(input.children, Len(input.children))
                                 \o <<"<", "/">> \o input.tag \o <<">">>
        /\ input = FormatExample => result.html = FormatExampleHtml

\* the div with two attributes and three children has been serialized
C15_Witness ==
    /\ op = "to_html"
    /\ input = FormatExample
    /\ result = [err |-> NoError, html |-> FormatExampleHtml]

\* the indexes of the lines that, trimmed, start with one '#' and a space
TitleLines(lines) ==
    { i \in 1..Len(lines) :
        /\ StartsWith(Strip(lines[i]), <<"#", " ">>)
        /\ ~StartsWith(Strip(lines[i]), <<"#", "#", " ">>) }

\* C16: extract_title returns, for the first line of the document that after
\* trimming starts with exactly "# " (not "## "), the trimmed remainder of
\* that line, and raises "No h1 header found" exactly when no line does.
C16_TitleExtraction ==
    op = "extract_title" =>
        LET lines == Split(input, <<NL>>)
            first == Min(TitleLines(lines))
        IN /\ TitleLines(lines) = {} <=> result.err = "No h1 header found in markdown"
           /\ TitleLines(lines) # {} =>
                 /\ result.err = NoError
                 /\ result.title
                       = Strip(Slice(Strip(lines[first]), 3, Len(Strip(lines[first]))))

\* the title of the example is found on its second line and trimmed
C16_Witness ==
    /\ op = "extract_title"
    /\ input = TitleExample
    /\ result = [err |-> NoError, title |-> <<"a">>]

RECURSIVE MarkdownFiles(_, _)
\* the markdown files below a directory, each with its destination path
MarkdownFiles(items, dest) ==
    UNION { IF items[i].kind = "dir"
            THEN MarkdownFiles(items[i].items, dest \o <<items[i].name>>)
            ELSE IF EndsWith(items[i].name, <<".", "m", "d">>)
            THEN { [content |-> items[i].content,
                    path |-> dest \o << Slice(items[i].name, 1, Len(items[i].name) - 3)
                                          \o <<".", "h", "t", "m", "l">> >>] }
            ELSE {}
          : i \in 1..Len(items) }

Written(files) == { f[1] : f \in files }

\* C17: when generate_pages_recursive has ended, on a tree where the
\* conversion of some markdown file fails, the pages of all the markdown files
\* whose conversion does not fail have been generated.
C17_BatchResilience ==
    (op = "generate_pages_recursive" /\ result.status # "running") =>
        \A f \in MarkdownFiles(input.items, DestRoot) :
            full_html(Template, f.content, BasePath).err = NoError
                => f.path \in Written(result.files)

\* what a directory holds, by paths relative to it
Contents(fs, root) ==
    [dirs |-> { Slice(d, Len(root) + 1, Len(d)) :
                  d \in {e \in fs.dirs : StartsWith(e, root) /\ e # root} },
     files |-> { <<Slice(f[1], Len(root) + 1, Len(f[1])), f[2]>> :
                   f \in {g \in fs.files : StartsWith(g[1], root)} }]

\* neither directory is the other or lies inside the other
Apart(src_dir, dest_dir) == ~StartsWith(src_dir, dest_dir) /\ ~StartsWith(dest_dir, src_dir)

\* C18: when copy_directory_contents(src_dir, dest_dir) has completed,
\* dest_dir is a directory that holds exactly the files and subdirectories of
\* src_dir at the same relative paths, whatever dest_dir held before the call;
\* nothing of what dest_dir held before and src_dir does not hold remains
\* (and a source apart from the destination is as it was before the call).
C18_CleanCopy ==
    (op = "copy_directory_contents" /\ result.status = "returned") =>
        /\ IsDir(Fs, input.dest_dir)
        /\ Contents(Fs, input.dest_dir) = Contents(Fs, input.src_dir)
        /\ \A f \in Contents(input.fs, input.dest_dir).files :
              f \notin Contents(Fs, input.src_dir).files
                  => f \notin Contents(Fs, input.dest_dir).files
        /\ \A d \in Contents(input.fs, input.dest_dir).dirs :
              d \notin Contents(Fs, input.src_dir).dirs
                  => d \notin Contents(Fs, input.dest_dir).dirs
        /\ Apart(input.src_dir, input.dest_dir) =>
              Contents(Fs, input.src_dir) = Contents(input.fs, input.src_dir)

\* a completed copy of a source with a file in a subdirectory over a
\* destination that held a directory f, a file d and a file g
C18_Witness ==
    /\ op = "copy_directory_contents"
    /\ result.status = "returned"
    /\ IsFile(input.fs, <<"p", "g">>)
    /\ IsDir(input.fs, <<"p", "f">>)
    /\ IsFile(Fs, <<"p", "d", "f">>)
    /\ IsFile(Fs, <<"p", "f">>)
    /\ ~Exists(Fs, <<"p", "g">>)

\* the index of the k-th non-empty part
NthNonEmpty(parts, k) ==
    CHOOSE i \in 1..Len(parts) :
        /\ parts[i] # <<>>
        /\ Cardinality({j \in 1..i : parts[j] # <<>>}) = k

\* C19: for a TEXT node whose text splits on the delimiter into an odd number
\* of parts, split_nodes_delimiter emits, in order and skipping the empty
\* parts, a TEXT fragment for each even-indexed part and a fragment of the
\* pass's type for each odd-indexed part (indexes from 0); when the number of
\* parts is even it raises and returns nothing.
C19_DelimiterPass ==
    (op = "split_nodes_delimiter" /\ Len(input.old_nodes) = 1
                                  /\ input.old_nodes[1].node_type = "TEXT") =>
        LET parts == Split(input.old_nodes[1].text, input.delimiter)
            kept == Cardinality({i \in 1..Len(parts) : parts[i] # <<>>})
        IN IF Len(parts) % 2 = 0
           THEN result = [err |-> "Invalid Markdown syntax", nodes |-> <<>>]
           ELSE /\ result.err = NoError
                /\ Len(result.nodes) = kept
                /\ \A k \in 1..kept :
                      result.nodes[k] =
                          TextNode(parts[NthNonEmpty(parts, k)],
                                   IF (NthNonEmpty(parts, k) - 1) % 2 = 0 THEN "TEXT"
                                   ELSE input.text_type,
                                   None)

\* the example split on '_': parts 0 and 2 are empty and skipped, parts 1 and
\* 3 are ITALIC, part 4 is TEXT
C19_Witness ==
    /\ op = "split_nodes_delimiter"
    /\ input.old_nodes = <<TextNode(DelimiterExample, "TEXT", None)>>
    /\ input.delimiter = <<"_">>
    /\ result = [err |-> NoError,
                 nodes |-> << TextNode(<<"a">>, "ITALIC", None),
                              TextNode(<<"a">>, "ITALIC", None),
                              TextNode(<<"a">>, "TEXT", None) >>]

RECURSIVE PassedThrough(_, _)
\* the output the claim fixes: each non-TEXT node itself, and for each TEXT
\* node, at its place, the nodes given by outOf
PassedThrough(old_nodes, outOf) ==
    IF old_nodes = <<>> THEN <<>>
    ELSE (IF Head(old_nodes).node_type # "TEXT" THEN <<Head(old_nodes)>>
          ELSE outOf[Head(old_nodes)])
         \o PassedThrough(Tail(old_nodes), outOf)

TextNodesOf(old_nodes) ==
    { old_nodes[i] : i \in {j \in 1..Len(old_nodes) : old_nodes[j].node_type = "TEXT"} }

\* C20: split_nodes_delimiter, split_nodes_image and split_nodes_link leave
\* every non-TEXT input fragment in the output unchanged (kind, content,
\* target) and at the same place among the fragments: the output is the input
\* list with each TEXT node replaced by what the pass makes of that node
\* alone; the text of a BOLD, ITALIC, CODE, LINK or IMAGE fragment is not
\* tokenized again.
C20_PassThrough ==
    /\ (op = "split_nodes_delimiter" /\ result.err = NoError) =>
          result.nodes =
              PassedThrough(input.old_nodes,
                  [n \in TextNodesOf(input.old_nodes) |->
                      split_nodes_delimiter(<<n>>, input.delimiter, input.text_type).nodes])
    /\ op = "split_nodes_image" =>
          result = PassedThrough(input.old_nodes,
                      [n \in TextNodesOf(input.old_nodes) |-> split_nodes_image(<<n>>)])
    /\ op = "split_nodes_link" =>
          result = PassedThrough(input.old_nodes,
                      [n \in TextNodesOf(input.old_nodes) |-> split_nodes_link(<<n>>)])

\* an ITALIC fragment whose text holds an image and a link, between two TEXT
\* nodes that hold an image: the image pass splits the TEXT nodes only
C20_Witness ==
    /\ op = "split_nodes_image"
    /\ Len(input.old_nodes) = 3
    /\ input.old_nodes[1] = TextNode(ImageText \o <<"a">> \o LinkText, "TEXT", None)
    /\ input.old_nodes[2] = TextNode(ImageText \o LinkText, "ITALIC", None)
    /\ input.old_nodes[3] = input.old_nodes[1]
    /\ Len(result) = 5
    /\ result[1].node_type = "IMAGE"
    /\ result[3] = input.old_nodes[2]
    /\ result[4].node_type = "IMAGE"


\* the markdown of an image match (alt, url): ![alt](url)
ImageMarkdown(m) == <<"!", "[">> \o m[1] \o <<"]", "(">> \o m[2] \o <<")">>

\* a fragment written back as the markdown it was cut from
Rendered(node) ==
    CASE node.node_type = "LINK" -> <<"[">> \o node.text \o <<"]", "(">> \o node.URL \o <<")">>
      [] node.node_type = "IMAGE" -> ImageMarkdown(<<node.text, node.URL>>)
      [] OTHER -> node.text

RECURSIVE RenderedAll(_)
RenderedAll(nodes) ==
    IF nodes = <<>> THEN <<>> ELSE Rendered(Head(nodes)) \o RenderedAll(Tail(nodes))

\* C21: split_nodes_link on one TEXT node emits a LINK fragment only at a
\* bracket occurrence that is not directly preceded by '!', and every image
\* occurrence of the text remains verbatim inside a TEXT fragment of the
\* output, also when a link of the text has the anchor and url of an image.
C21_LinkIgnoresImages ==
    (op = "split_nodes_link" /\ Len(input.old_nodes) = 1
        /\ input.old_nodes[1].node_type = "TEXT") =>
        LET text == input.old_nodes[1].text
            images == extract_markdown_images(text)
        IN /\ \A k \in 1..Len(result) :
                 result[k].node_type = "LINK" =>
                     LET before == Len(RenderedAll(SubSeq(result, 1, k - 1)))
                     IN before = 0 \/ before > Len(text) \/ text[before] # "!"
           /\ \A k \in 1..Len(images) :
                 \E j \in 1..Len(result) :
                     /\ result[j].node_type = "TEXT"
                     /\ Find(result[j].text, ImageMarkdown(images[k]), 1) # 0


\* a node of an input list as the markdown it stands for: a TEXT node is its
\* text; the other nodes pass through a split unchanged and render as in the output
RECURSIVE RenderedInput(_)
RenderedInput(old_nodes) ==
    IF old_nodes = <<>> THEN <<>>
    ELSE (IF Head(old_nodes).node_type = "TEXT" THEN Head(old_nodes).text
          ELSE Rendered(Head(old_nodes)))
         \o RenderedInput(Tail(old_nodes))

\* C22: split_nodes_image on a TEXT node emits the image matches of its text
\* in left-to-right order, each preceded by the non-empty plain text between
\* it and the match before and, at the end, the non-empty trailing text: the
\* output fragments, each IMAGE written back as ![content](target),
\* concatenate to the input text exactly.
C22_ImageRoundTrip ==
    op = "split_nodes_image" =>
        /\ RenderedAll(result) = RenderedInput(input.old_nodes)
        /\ (Len(input.old_nodes) = 1 /\ input.old_nodes[1].node_type = "TEXT") =>
              LET text == input.old_nodes[1].text
                  images == extract_markdown_images(text)
              IN /\ SelectType(result, "IMAGE") = AsNodes(images, "IMAGE")
                 /\ \A k \in 1..Len(result) :
                       result[k].node_type \in {"TEXT", "IMAGE"}
                 /\ images # <<>> =>
                       /\ \A k \in 1..Len(result) :
                             result[k].node_type = "TEXT" => result[k].text # <<>>
                       /\ \A k \in 1..(Len(result) - 1) :
                             result[k].node_type = "TEXT" => result[k + 1].node_type = "IMAGE"

\* two images side by side and a trailing text have been split
C22_Witness ==
    /\ op = "split_nodes_image"
    /\ input.old_nodes = <<TextNode(ImageText \o ImageText \o <<"a">>, "TEXT", None)>>
    /\ result = << TextNode(<<"a">>, "IMAGE", <<"u">>),
                   TextNode(<<"a">>, "IMAGE", <<"u">>),
                   TextNode(<<"a">>, "TEXT", None) >>


\* the strings a leaf carries: its value and the values of its attributes
LeafTexts(node) ==
    {node.value} \cup {node.props[i][2] : i \in 1..Len(node.props)}

\* C23: for a block classified PARAGRAPH, block_to_html_node tokenizes the
\* block's lines joined with single spaces and returns a Parent with tag p
\* around the fragments' leaves (or raises the tokenizer's exception); no
\* text of the children holds a newline character.
C23_ParagraphJoined ==
    (op = "block_to_html_node" /\ block_to_block_type(input) = "PARAGRAPH") =>
        LET text == Join(<<" ">>, Split(input, <<NL>>))
            children == text_to_children(text)
        IN /\ result.err = children.err
           /\ result.err \in {NoError, "Invalid Markdown syntax"}
           /\ result.err = NoError =>
                 /\ result.node.kind = "ParentNode"
                 /\ result.node.tag = <<"p">>
                 /\ result.node.children = children.nodes
                 /\ \A i \in 1..Len(result.node.children) :
                       \A s \in LeafTexts(result.node.children[i]) : NL \notin Chars(s)

\* a paragraph of two lines has become one text with a space
C23_Witness ==
    /\ op = "block_to_html_node"
    /\ input = <<"a", NL, "2", ".", "a">>
    /\ result = [err |-> NoError,
                 node |-> ParentNode(<<"p">>, <<LeafNode(None, <<"a", " ", "2", ".", "a">>, <<>>)>>, <<>>)]


\* the number of '#' characters the block starts with
LeadingHashes(block) ==
    Max({n \in 0..Len(block) : \A i \in 1..n : block[i] = "#"})

\* C24: for a block classified HEADING, block_to_html_node returns a Parent
\* with tag h{n}, n in 1..6 the number of leading '#' characters, whose
\* children are the leaves of the tokenization of the whole remainder of the
\* block after those n characters and one space, further lines included (or
\* it raises the tokenizer's exception).
C24_HeadingConversion ==
    (op = "block_to_html_node" /\ block_to_block_type(input) = "HEADING") =>
        LET n == LeadingHashes(input)
            children == text_to_children(Slice(input, n + 2, Len(input)))
        IN /\ n \in 1..6
           /\ input[n + 1] = " "
           /\ result.err = children.err
           /\ result.err \in {NoError, "Invalid Markdown syntax"}
           /\ result.err = NoError =>
                 /\ result.node.kind = "ParentNode"
                 /\ result.node.tag = <<"h", Digit(n)>>
                 /\ result.node.children = children.nodes

\* a heading whose remainder spans a second line has been converted
C24_Witness ==
    /\ op = "block_to_html_node"
    /\ input = <<"#", " ", NL, "a">>
    /\ result.node = ParentNode(<<"h", "1">>, <<LeafNode(None, <<NL, "a">>, <<>>)>>, <<>>)


RECURSIVE ItemsOf(_, _)
\* the li Parents of the lines from the i-th on, line i without its numeric
\* prefix "i. "; the first tokenizer exception wins
ItemsOf(lines, i) ==
    IF i > Len(lines) THEN [err |-> NoError, nodes |-> <<>>]
    ELSE Sequence(One(Wrap(<<"l", "i">>,
                           text_to_children(Slice(lines[i], Len(Str(i)) + 3, Len(lines[i]))))),
                  ItemsOf(lines, i + 1))

\* C25: for a block classified ORDERED_LIST, block_to_html_node returns an ol
\* Parent with one li child per line, in line order, the text tokenized for
\* the i-th line being the line without its numeric prefix "i. " : the first
\* ". " of a line is the one ending that prefix, also for two-digit numbers
\* and for item text that holds ". " itself (or the call raises the
\* tokenizer's exception).
C25_OrderedListItems ==
    (op = "block_to_html_node" /\ block_to_block_type(input) = "ORDERED_LIST") =>
        LET lines == Split(input, <<NL>>)
            items == ItemsOf(lines, 1)
        IN /\ \A i \in 1..Len(lines) : Find(lines[i], <<".", " ">>, 1) = Len(Str(i)) + 1
           /\ result.err = items.err
           /\ result.err \in {NoError, "Invalid Markdown syntax"}
           /\ result.err = NoError =>
                 /\ result.node.kind = "ParentNode"
                 /\ result.node.tag = <<"o", "l">>
                 /\ Len(result.node.children) = Len(lines)
                 /\ result.node.children = items.nodes

\* an item whose text holds ". " has kept it
C25_Witness ==
    /\ op = "block_to_html_node"
    /\ input = <<"1", ".", " ", "a", NL, "2", ".", " ", "a", ".", " ", "a">>
    /\ result.node.children[2]
          = ParentNode(<<"l", "i">>, <<LeafNode(None, <<"a", ".", " ", "a">>, <<>>)>>, <<>>)


\* C26: when markdown_to_html_node returns on a document with at least one
\* block, every Parent of the returned tree has at least one child, so
\* to_html of the tree does not raise.
C26_SerializableOutput ==
    (op = "markdown_to_html_node" /\ markdown_to_blocks(input) # <<>>
        /\ result.err = NoError) =>
        /\ ~HasBadParent(result.node)
        /\ to_html(result.node).err = NoError


\* the structural rules of block_to_block_type the block satisfies, each taken
\* on its own
SatisfiedRules(block) ==
    LET lines == Split(block, <<NL>>)
    IN { t \in BlockType \ {"PARAGRAPH"} :
           CASE t = "HEADING" -> IsHeading(block)
             [] t = "CODE" -> IsCode(block)
             [] t = "QUOTE" -> IsQuote(lines)
             [] t = "UNORDERED_LIST" -> IsUnorderedList(lines)
             [] t = "ORDERED_LIST" -> IsOrderedList(lines) }

\* C27: every block satisfies at most one of the five structural rules of
\* block_to_block_type, so the type returned is that of the one rule
\* satisfied, PARAGRAPH when there is none, whatever the order of evaluation.
C27_RuleExclusivity ==
    op = "block_to_block_type" =>
        /\ Cardinality(SatisfiedRules(input)) <= 1
        /\ \A t \in SatisfiedRules(input) : result = t
        /\ SatisfiedRules(input) = {} => result = "PARAGRAPH"

\* a quote of two lines has been classified by the one rule it satisfies
C27_Witness ==
    /\ op = "block_to_block_type"
    /\ input = <<">", "a", NL, ">", " ", "a">>
    /\ SatisfiedRules(input) = {"QUOTE"}
    /\ result = "QUOTE"


\* C28: in every fragment list text_to_textnodes returns, the content of a
\* TEXT or CODE fragment and the content and target of a LINK or IMAGE
\* fragment hold none of the characters '*', '_' and backtick; so no link or
\* image with such a character in its anchor or url is emitted.
C28_NoResidualDelimiter ==
    (op = "text_to_textnodes" /\ result.err = NoError) =>
        \A i \in 1..Len(result.nodes) :
            LET node == result.nodes[i]
            IN /\ node.node_type \in {"TEXT", "CODE", "LINK", "IMAGE"} => DelimiterFree(node.text)
               /\ node.node_type \in {"LINK", "IMAGE"} => DelimiterFree(node.URL)
               /\ node.node_type \notin {"LINK", "IMAGE"} => node.URL = None

\* a link with '*' in its anchor and in its url has been tokenized without
\* error, and no LINK fragment came out
C28_Witness ==
    /\ op = "text_to_textnodes"
    /\ input = <<"[", "a", "*", "]", "(", "*", ")">>
    /\ extract_markdown_links(input) # <<>>
    /\ result.err = NoError
    /\ SelectType(result.nodes, "LINK") = <<>>
    /\ SelectType(result.nodes, "ITALIC") = <<TextNode(<<"]", "(">>, "ITALIC", None)>>


\* C29: the blocks of a document, joined with two newlines and split again,
\* are the same blocks.
C29_RejoinIdempotent ==
    op = "markdown_to_blocks" =>
        markdown_to_blocks(Join(<<NL, NL>>, result)) = result

\* a document that is not the join of its own blocks has been split in two
C29_Witness ==
    /\ op = "markdown_to_blocks"
    /\ Len(result) = 2
    /\ Join(<<NL, NL>>, result) # input
    /\ \E i \in 1..Len(input) : input[i] = TAB


\* C30: generate_page converts, serializes and extracts the title, in that
\* order, before it touches the filesystem: when one of them raises, the call
\* raises that exception, the first in that order, and the directories and
\* files are what they were, no destination directory created and no
\* destination file created or modified; when conversion and title
\* extraction both fail, the exception is the conversion's.
C30_NoWriteOnFailure ==
    op = "generate_page" =>
        LET html_node == markdown_to_html_node(input.markdown)
            html_content == IF html_node.err = NoError THEN to_html(html_node.node)
                            ELSE [err |-> NoError, html |-> <<>>]
            title == extract_title(input.markdown)
            failure == html_node.err # NoError \/ html_content.err # NoError
                           \/ title.err # NoError
        IN /\ failure <=> result.err # NoError
           /\ failure =>
                 /\ result.dirs = input.fs.dirs
                 /\ result.files = input.fs.files
           /\ html_node.err # NoError => result.err = html_node.err
           /\ (html_node.err = NoError /\ html_content.err # NoError) =>
                 result.err = html_content.err
           /\ (html_node.err = NoError /\ html_content.err = NoError /\ title.err # NoError) =>
                 result.err = title.err
           /\ ~failure => input.dest_path \in Written(result.files)

\* a page whose conversion and title extraction both fail, to be written
\* over a stale file: the conversion's exception, the stale file untouched
C30_Witness ==
    /\ op = "generate_page"
    /\ input.markdown = <<"*", "a">>
    /\ markdown_to_html_node(input.markdown).err = "Invalid Markdown syntax"
    /\ extract_title(input.markdown).err = NoTitle.err
    /\ input.fs.files = {<<input.dest_path, StalePage>>}
    /\ result.err = "Invalid Markdown syntax"
    /\ result.files = input.fs.files

====
